---------------------------- MODULE Spec2Model ----------------------------
(***************************************************************************)
(* A model of app.py (AI Prompt Generator): the rich-text renderers        *)
(* (_set_cell_text, generate_attachment_docx), the template table scan of  *)
(* create_prompt_docx, create_zip, and the generate button handler.        *)
(*                                                                         *)
(* Text is a sequence of characters, each a string.  A Python value is a     *)
(* record [ty, v]: ty is the Python type and v the value's characters      *)
(* (for a string its text, for the other types its repr).  A prompt record *)
(* (a dict) is a function from the keys it holds to values.                *)
(***************************************************************************)
EXTENDS Integers, Sequences, FiniteSets, TLC

VARIABLES
    \* --- rendering one text (SpecRender) ---
    text,        \* the text handed to the renderers
    rbold,       \* the bold argument of _set_cell_text
    cellOut,     \* paragraphs of the cell after _set_cell_text, or <<>> before
    attOut,      \* [ret, body]: generate_attachment_docx's result
    rpc,         \* "idle" | "init" | "cell" | "att"
    \* --- create_zip / create_prompt_docx for one record (Spec) ---
    template,    \* the template's first table: rows of [cells, tc]
    doc,         \* the open document's table: per row, cell -> paragraphs
    data,        \* the prompt record (mutated: attachment_text is added)
    zloc,        \* create_zip's locals for the record
    loc,         \* create_prompt_docx's locals
    row,         \* the table row the scan is at
    writes,      \* history: the _set_cell_text calls made, in order
    visited,     \* history: the rows the scan's loop body ran for, in order
    dpc,         \* where create_zip is for the record
    \* --- the generate button handler and the results section (SpecGen) ---
    generated_prompts,  \* st.session_state['generated_prompts'] (<<>> if unset)
    is_friday_list,     \* st.session_state['is_friday_list'] (<<>> if unset)
    inputs,             \* the sidebar values of the request
    all_prompts,        \* the handler's local list
    all_friday,         \* the handler's local list
    calls,              \* history: the call_ai_agent calls of the request
    gerr,               \* the st.error the request ended with, or "none"
    zip_result,         \* how the last create_zip of the results section ended
    requests,           \* button clicks so far
    gpc,                \* where the script run is
    \* --- one create_prompt_docx call (SpecSplice) ---
    cpd_args,           \* the arguments and the template files present
    cpd_ret,            \* what the call returned or raised
    cpc,                \* where the call is
    \* --- create_zip over a list of records (SpecZip) ---
    zprompts,           \* create_zip's prompts (the records, mutable dicts)
    flags,              \* create_zip's is_friday_list
    templates,          \* the template files that exist
    zi,                 \* the record the loop is at
    archive,            \* the entries written to the ZipFile, in order
    zpc,                \* where create_zip is
    \* --- the allowlist store (SpecDomains) ---
    domains_file,       \* DOMAINS_FILE: absent, unreadable, or the list it holds
    allowed_domains,    \* per session: st.session_state["allowed_domains"]
    last_op,            \* history: the last allowlist operation
    \* --- _unique_cells on one row (SpecCells) ---
    row_cells,          \* row.cells: the underlying cell of each grid column
    unique,             \* what _unique_cells returned
    ucpc,               \* where the call is
    \* --- the header label of one create_prompt_docx call (SpecHeader) ---
    rels,               \* doc.part.rels: the related parts and their w:t texts
    rels0,              \* history: the parts as the template was opened
    hdata,              \* the prompt record of the call
    hpc,                \* where the call is
    \* --- _fix_template_ref on one opened document (SpecSettings) ---
    settings,           \* doc.settings: the element's children and the part's rels
    settings0,          \* history: the settings as the template was opened
    fix_runs            \* how often _fix_template_ref ran on the document

renVars == <<text, rbold, cellOut, attOut, rpc>>
docVars == <<template, doc, data, zloc, loc, row, writes, visited, dpc>>
genVars == <<generated_prompts, is_friday_list, inputs, all_prompts, all_friday,
             calls, gerr, zip_result, requests, gpc>>
spVars == <<cpd_args, cpd_ret, cpc>>
zipVars == <<zprompts, flags, templates, zi, archive, zpc>>
domVars == <<domains_file, allowed_domains, last_op>>
cellVars == <<row_cells, unique, ucpc>>
hdrVars == <<rels, rels0, hdata, hpc>>
setVars == <<settings, settings0, fix_runs>>

-----------------------------------------------------------------------------
(* Bounds of the model *)

\* longest body of a rendered text, in characters
MaxLen == 5

\* most rows of a template table
MaxRows == 2

\* most clicks of the generate button in a session
MaxRequests == 2

\* most body elements of an attachment document handed to create_prompt_docx
MaxAtt == 3

\* most records in the list handed to create_zip
MaxRecords == 2

\* most browser sessions
MaxSessions == 2

\* most grid columns of a table row
MaxCols == 4

\* most children of the settings element, and most runs of
\* _fix_template_ref on one document
MaxSettings == 3
MaxRuns == 2

\* most parts related to the document, and most w:t nodes of one part
MaxParts == 2
MaxNodes == 2

-----------------------------------------------------------------------------
(* Python string primitives, on sequences of characters *)

\* characters str.strip() removes
Whitespace == {" ", "\n"}

\* characters str.isupper() counts as cased
UpperChars == {"A"}
LowerChars == {"a"}

Digits == {"1"}

MinOf(S) == CHOOSE x \in S : \A y \in S : x <= y
MaxOf(S) == CHOOSE x \in S : \A y \in S : x >= y

\* s[a:b] of Python for 0 <= a, given as the 1-based inclusive range a+1..b
Slice(s, from, to) == IF from > to THEN <<>> ELSE SubSeq(s, from, to)

\* str.strip()
Strip(s) ==
    LET keep == {i \in 1..Len(s) : s[i] \notin Whitespace}
    IN  IF keep = {} THEN <<>> ELSE SubSeq(s, MinOf(keep), MaxOf(keep))

\* str.startswith(p) / str.endswith(p)
StartsWith(s, p) == Len(s) >= Len(p) /\ SubSeq(s, 1, Len(p)) = p
EndsWith(s, p) == Len(s) >= Len(p) /\ SubSeq(s, Len(s) - Len(p) + 1, Len(s)) = p

\* str.split('\n'): always at least one piece
RECURSIVE SplitLines(_)
SplitLines(s) ==
    LET nl == {i \in 1..Len(s) : s[i] = "\n"}
    IN  IF nl = {} THEN <<s>>
        ELSE <<SubSeq(s, 1, MinOf(nl) - 1)>>
             \o SplitLines(SubSeq(s, MinOf(nl) + 1, Len(s)))

\* str.isupper(): at least one cased character and no lower-case one
IsUpper(s) ==
    /\ \E i \in 1..Len(s) : s[i] \in UpperChars
    /\ \A i \in 1..Len(s) : s[i] \notin LowerChars

\* re.match(r'^\d+\.\s', s)
IsNumbered(s) ==
    \E n \in 1..Len(s) :
        /\ \A i \in 1..n : s[i] \in Digits
        /\ n + 2 <= Len(s)
        /\ s[n + 1] = "."
        /\ s[n + 2] \in Whitespace

\* the character U+2022 (bullet), written as a token
Bullet == "BULLET"

IsBullet(s) == StartsWith(s, <<"-", " ">>) \/ StartsWith(s, <<Bullet, " ">>)

-----------------------------------------------------------------------------
(* re.split on the bold-span pattern: '**', one or more characters taken *)
(* lazily, '**' (the pattern is in a capture group, so matches are kept)  *)

Stars == <<"*", "*">>

IsDelim(s, p) == p >= 1 /\ p + 1 <= Len(s) /\ s[p] = "*" /\ s[p + 1] = "*"

\* where the shortest match opening at p closes (position of its closing
\* '**'), 0 if none: '.+?' takes at least one character, none a newline
CloseAt(s, p) ==
    LET cs == {q \in (p + 3)..(Len(s) - 1) :
                  /\ IsDelim(s, q)
                  /\ \A k \in (p + 2)..(q - 1) : s[k] # "\n"}
    IN  IF cs = {} THEN 0 ELSE MinOf(cs)

\* the leftmost position >= from where the pattern matches, 0 if none
FindMatch(s, from) ==
    LET ps == {p \in from..Len(s) : IsDelim(s, p) /\ CloseAt(s, p) # 0}
    IN  IF ps = {} THEN 0 ELSE MinOf(ps)

\* the pieces re.split returns: text, match, text, match, ..., text
RECURSIVE ReSplitFrom(_, _)
ReSplitFrom(s, from) ==
    LET p == FindMatch(s, from)
    IN  IF p = 0 THEN <<Slice(s, from, Len(s))>>
        ELSE <<Slice(s, from, p - 1), SubSeq(s, p, CloseAt(s, p) + 1)>>
             \o ReSplitFrom(s, CloseAt(s, p) + 2)

ReSplit(s) == ReSplitFrom(s, 1)

-----------------------------------------------------------------------------
(* Python values and prompt records *)

PyStr(s) == [ty |-> "str", v |-> s]
PyInt(n) == [ty |-> "int", v |-> <<n>>]
PyBool(b) == [ty |-> "bool", v |-> IF b THEN <<"True">> ELSE <<"False">>]
PyNone == [ty |-> "NoneType", v |-> <<>>]
PyList(items) == [ty |-> "list", v |-> items]

IsStr(val) == val.ty = "str"

\* bool(val), the truth test of 'if val' and 'val and ...'
Truthy(val) ==
    CASE val.ty = "NoneType" -> FALSE
      [] val.ty = "bool" -> val.v = <<"True">>
      [] val.ty = "int" -> val.v # <<"0">>
      [] OTHER -> val.v # <<>>

\* the characters an f-string puts for {val}
Format(val) ==
    CASE val.ty = "NoneType" -> <<"None">>
      [] val.ty = "list" -> <<"[">> \o val.v \o <<"]">>
      [] OTHER -> val.v

\* (mutant) dict.get(key): the default is dropped
GetNoDefault(d, key, default) == IF key \in DOMAIN d THEN d[key] ELSE PyNone

\* dict.get(key, default)
Get(d, key, default) == IF key \in DOMAIN d THEN d[key] ELSE default

-----------------------------------------------------------------------------
(* The renderers *)

make_run(t, bold) == [text |-> t, bold |-> bold]

\* the loop over re.split's pieces, shared by both renderers: a piece that
\* starts and ends with '**' becomes a bold run of part[2:-2], any other
\* non-empty piece a run with the caller's bold
RECURSIVE PartsToRuns(_, _)
PartsToRuns(parts, bold) ==
    IF parts = <<>> THEN <<>>
    ELSE LET part == Head(parts)
             rest == PartsToRuns(Tail(parts), bold)
         IN  IF StartsWith(part, Stars) /\ EndsWith(part, Stars)
             THEN <<make_run(Slice(part, 3, Len(part) - 2), TRUE)>> \o rest
             ELSE IF part # <<>> THEN <<make_run(part, bold)>> \o rest
             ELSE rest

BoldSpanRuns(line, bold) == PartsToRuns(ReSplit(line), bold)

\* one paragraph of _set_cell_text
CellParagraph(line, bold) ==
    LET stripped == Strip(line)
        is_bullet == IsBullet(stripped)
        is_numbered == IsNumbered(stripped)
        display_line ==
            IF is_bullet \/ is_numbered
            THEN IF is_bullet
                 THEN <<Bullet, " ">> \o Slice(stripped, 3, Len(stripped))
                 ELSE stripped
            ELSE line
    IN  [kind |-> IF is_bullet THEN "bullet"
                  ELSE IF is_numbered THEN "numbered" ELSE "plain",
         ind  |-> is_bullet \/ is_numbered,
         runs |-> BoldSpanRuns(display_line, bold)]

\* the paragraphs _set_cell_text puts in the cell for a string (the cell's
\* former paragraphs are removed first)
SetCellParas(s, bold) ==
    LET lines == IF s # <<>> THEN SplitLines(s) ELSE <<<<>>>>
    IN  [k \in 1..Len(lines) |-> CellParagraph(lines[k], bold)]

\* _set_cell_text(cell, text, bold): the cell's new paragraphs; a value that
\* is truthy and no string has no split() and raises AttributeError
set_cell_text(val, bold) ==
    IF ~Truthy(val) THEN [ok |-> TRUE, paras |-> SetCellParas(<<>>, bold)]
    ELSE IF IsStr(val) THEN [ok |-> TRUE, paras |-> SetCellParas(val.v, bold)]
    ELSE [ok |-> FALSE, paras |-> <<>>]

\* _get_cell_text: every text node of the cell joined, then stripped
RECURSIVE JoinRuns(_)
JoinRuns(runs) ==
    IF runs = <<>> THEN <<>> ELSE Head(runs).text \o JoinRuns(Tail(runs))

RECURSIVE JoinParas(_)
JoinParas(paras) ==
    IF paras = <<>> THEN <<>>
    ELSE JoinRuns(Head(paras).runs) \o JoinParas(Tail(paras))

get_cell_text(paras) == Strip(JoinParas(paras))

\* 'len(stripped) < 60' of the heading test
HeadingMaxLen == 60

\* one body paragraph of generate_attachment_docx
AttachmentParagraph(line) ==
    LET stripped == Strip(line)
    IN  IF stripped = <<>>
        THEN [kind |-> "blank", ind |-> FALSE, runs |-> <<>>]
        ELSE IF IsUpper(stripped)
                \/ (EndsWith(stripped, <<":">>) /\ Len(stripped) < HeadingMaxLen)
        THEN [kind |-> "heading", ind |-> FALSE,
              runs |-> <<make_run(stripped, TRUE)>>]
        ELSE IF IsBullet(stripped)
        THEN [kind |-> "bullet", ind |-> TRUE,
              runs |-> <<make_run(<<Bullet, " ">>
                                  \o Slice(stripped, 3, Len(stripped)), FALSE)>>]
        ELSE IF IsNumbered(stripped)
        THEN [kind |-> "numbered", ind |-> TRUE,
              runs |-> <<make_run(stripped, FALSE)>>]
        ELSE [kind |-> "plain", ind |-> FALSE,
              runs |-> BoldSpanRuns(line, FALSE)]

\* generate_attachment_docx(prompt): None for empty content, else the body
\* paragraphs of the new document; .strip() of a value that is no string
\* raises AttributeError
generate_attachment_docx(prompt) ==
    LET raw == Get(prompt, "attachment_content", PyStr(<<>>))
        content == Strip(raw.v)
        description == Get(prompt, "attachment_description",
                           PyStr(<<"Sample attachment">>))
        pid == Get(prompt, "prompt_id", PyStr(<<>>))
        lines == SplitLines(content)
    IN  IF ~IsStr(raw) THEN [ret |-> "raise", body |-> <<>>]
        ELSE IF content = <<>> THEN [ret |-> "None", body |-> <<>>]
        ELSE [ret |-> "bytes",
              body |->
                <<[kind |-> "title", ind |-> FALSE,
                   runs |-> <<make_run(Format(pid) \o <<" ", "--", " ">>
                                       \o Format(description), TRUE)>>],
                  [kind |-> "spacer", ind |-> FALSE, runs |-> <<>>],
                  [kind |-> "note", ind |-> FALSE,
                   runs |-> <<make_run(<<"SAMPLE FILE FOR AI EXERCISE">>, TRUE)>>]>>
                \o [k \in 1..Len(lines) |-> AttachmentParagraph(lines[k])]]

-----------------------------------------------------------------------------
(* SpecRender: both renderers applied to one text *)

RECURSIVE SeqsUpTo(_, _)
SeqsUpTo(S, n) ==
    IF n = 0 THEN {<<>>}
    ELSE LET shorter == SeqsUpTo(S, n - 1)
         IN  shorter \cup {Append(s, c) : s \in shorter, c \in S}

\* the texts rendered: an optional list marker or opening '**', then up to
\* MaxLen characters
LinePrefixes == {<<>>, <<"-", " ">>, <<Bullet, " ">>, <<"1", ".", " ">>, Stars}
BodyChars == {"a", "A", "*", " ", ":", "\n"}
RenderTexts == {p \o b : p \in LinePrefixes, b \in SeqsUpTo(BodyChars, MaxLen)}

RenIdle ==
    /\ text = <<>>
    /\ rbold = FALSE
    /\ cellOut = <<>>
    /\ attOut = [ret |-> "unset", body |-> <<>>]
    /\ rpc = "idle"

RenderInit ==
    /\ text \in RenderTexts
    /\ rbold = FALSE
    /\ cellOut = <<>>
    /\ attOut = [ret |-> "unset", body |-> <<>>]
    /\ rpc = "init"

\* _set_cell_text(cell, text, bold)
RenderCell ==
    /\ rpc = "init"
    /\ \E b \in BOOLEAN :
        /\ rbold' = b
        /\ cellOut' = set_cell_text(PyStr(text), b).paras
    /\ rpc' = "cell"
    /\ UNCHANGED <<text, attOut>>

\* generate_attachment_docx({'attachment_content': text})
RenderAttachment ==
    /\ rpc = "cell"
    /\ attOut' = generate_attachment_docx([attachment_content |-> PyStr(text)])
    /\ rpc' = "att"
    /\ UNCHANGED <<text, rbold, cellOut>>

-----------------------------------------------------------------------------
(* The template table scan of create_prompt_docx *)

\* (mutant) label_to_key with 'Test Response' inserted first
label_to_key_reordered ==
    << [label |-> "Test Response",              key |-> "test_response"],
       [label |-> "E-Mail Message",             key |-> "email_message"],
       [label |-> "Learning Objective",         key |-> "learning_objective"],
       [label |-> "Demonstrated AI Capability", key |-> "demonstrated_ai_capability"],
       [label |-> "Attachment (if required)",   key |-> "attachment_text"] >>

\* label_to_key, in the dict's insertion order
label_to_key ==
    << [label |-> "E-Mail Message",             key |-> "email_message"],
       [label |-> "Learning Objective",         key |-> "learning_objective"],
       [label |-> "Demonstrated AI Capability", key |-> "demonstrated_ai_capability"],
       [label |-> "Test Response",              key |-> "test_response"],
       [label |-> "Attachment (if required)",   key |-> "attachment_text"] >>

Labels == {label_to_key[k].label : k \in 1..Len(label_to_key)}

\* 'label in left_text': a label or placeholder occurring in a cell text is
\* one token of the text
Contains(left_text, label) == \E k \in 1..Len(left_text) : left_text[k] = label

\* (mutant) _unique_cells remembering only the cell seen last
RECURSIVE UniqueFromLast(_, _)
UniqueFromLast(cells, seen) ==
    IF cells = <<>> THEN <<>>
    ELSE IF Head(cells) \in seen THEN UniqueFromLast(Tail(cells), seen)
    ELSE <<Head(cells)>> \o UniqueFromLast(Tail(cells), {Head(cells)})

\* _unique_cells(row): row.cells gives a merged cell once per grid column it
\* spans; keep the first occurrence of each underlying cell
RECURSIVE UniqueFrom(_, _)
UniqueFrom(cells, seen) ==
    IF cells = <<>> THEN <<>>
    ELSE IF Head(cells) \in seen THEN UniqueFrom(Tail(cells), seen)
    ELSE <<Head(cells)>> \o UniqueFrom(Tail(cells), seen \cup {Head(cells)})

unique_cells(cells) == UniqueFrom(cells, {})

\* (mutant) the label loop without its 'len(ucells) > 1' test
MatchedLabelNoLenTest(left_text, ucells) ==
    LET hits == {k \in 1..Len(label_to_key) :
                    Contains(left_text, label_to_key[k].label)}
    IN  IF hits = {} THEN 0 ELSE MinOf(hits)

\* the label loop of a content row: the index in label_to_key of the first
\* label with 'label in left_text and len(ucells) > 1', 0 if the loop ends
\* without a break
MatchedLabel(left_text, ucells) ==
    LET hits == {k \in 1..Len(label_to_key) :
                    Contains(left_text, label_to_key[k].label) /\ Len(ucells) > 1}
    IN  IF hits = {} THEN 0 ELSE MinOf(hits)

\* (mutant) only the daily placeholder is recognised
IsHeaderTextDailyOnly(left_text) == Contains(left_text, "DP##")

\* the header row test: 'DP##' in left_text or 'FP##' in left_text
IsHeaderText(left_text) == Contains(left_text, "DP##") \/ Contains(left_text, "FP##")

\* (mutant) the cell right of the label instead of the last one
ContentCellSecond(ucells) == ucells[2]

\* ucells[-1], the cell a content row's field goes to
ContentCell(ucells) == ucells[Len(ucells)]

\* (mutant) the loop skips a row
NextRowSkips(r) == r + 2

\* 'for row in tbl.rows': the row after row r
NextRow(r) == r + 1

\* one _set_cell_text call on cell c of row r: the cell's paragraphs after it
\* (none when it raised: the old ones are removed before text.split) and the
\* call's record in the history
CellWrite(tc, r, c, key, val, bold) ==
    LET res == set_cell_text(val, bold)
    IN  [ok |-> res.ok,
         tc |-> [tc EXCEPT ![c] = res.paras],
         ws |-> <<[row |-> r, cell |-> c, key |-> key, bold |-> bold,
                   val |-> val, ok |-> res.ok]>>]

\* the body of 'for row in tbl.rows' for row r with cells 'cells' and cell
\* contents tc; d is the record (attachment_text set), pid the local pid
ScanRow(cells, tc, r, d, pid) ==
    LET ucells == unique_cells(cells)
        left_text == get_cell_text(tc[ucells[1]])
        m == MatchedLabel(left_text, ucells)
    IN  IF ucells = <<>> THEN [ok |-> TRUE, tc |-> tc, ws |-> <<>>]
        ELSE IF IsHeaderText(left_text)
        THEN LET w1 == CellWrite(tc, r, ucells[1], "prompt_id", pid, TRUE)
                 w2 == CellWrite(w1.tc, r, ucells[3], "ai_prompt",
                                 Get(d, "ai_prompt", PyStr(<<>>)), FALSE)
             IN  IF ~w1.ok \/ Len(ucells) <= 2 THEN w1
                 ELSE [ok |-> w2.ok, tc |-> w2.tc, ws |-> w1.ws \o w2.ws]
        ELSE IF m # 0
        THEN CellWrite(tc, r, ContentCell(ucells), label_to_key[m].key,
                       Get(d, label_to_key[m].key, PyStr(<<>>)), FALSE)
        ELSE [ok |-> TRUE, tc |-> tc, ws |-> <<>>]

\* (mutant) the attachment text chosen by the key's presence, not its truth
AttachmentTextIfPresent(d) ==
    IF "attachment_required" \in DOMAIN d
    THEN Get(d, "attachment_description", PyStr(<<>>))
    ELSE PyStr(<<"None required">>)

\* line 804: the text of the attachment row
AttachmentText(d) ==
    IF Truthy(Get(d, "attachment_required", PyNone))
    THEN Get(d, "attachment_description", PyStr(<<>>))
    ELSE PyStr(<<"None required">>)

\* lines 796-805 of create_prompt_docx: the locals read from the record and
\* the record with attachment_text set; .strip() of a value that is no
\* string raises AttributeError
DocFields(d) ==
    LET pid == Get(d, "prompt_id", PyStr(<<"DP01">>))
        rawtopic == Get(d, "demonstrated_ai_capability", PyStr(<<"Prompt">>))
        topic == Strip(rawtopic.v)
        att == AttachmentText(d)
    IN  [ok |-> IsStr(rawtopic),
         pid |-> pid,
         topic |-> topic,
         file_label |-> Format(pid) \o <<" - Prompt Topic - ">> \o topic,
         att |-> att,
         data |-> [k \in DOMAIN d \cup {"attachment_text"} |->
                      IF k = "attachment_text" THEN att ELSE d[k]]]

-----------------------------------------------------------------------------
(* create_zip, for one record of the list *)

DocxExt == <<".", "docx">>

\* att_name.rsplit('.', 1)[0]
RSplitDot(s) ==
    LET dots == {k \in 1..Len(s) : s[k] = "."}
    IN  IF dots = {} THEN s ELSE SubSeq(s, 1, MaxOf(dots) - 1)

\* str.rstrip()
RStrip(s) ==
    LET keep == {k \in 1..Len(s) : s[k] \notin Whitespace}
    IN  IF keep = {} THEN <<>> ELSE SubSeq(s, 1, MaxOf(keep))

\* 'short_desc[:50]' of create_zip
DescMaxLen == 50

\* re.sub on the characters a file name may not hold
PathChars == {"\\", "/", ":", "*", "?", "\"", "<", ">", "|"}
Sanitize(s) == [k \in 1..Len(s) |-> IF s[k] \in PathChars THEN "-" ELSE s[k]]

NoBytes == [ret |-> "None", body |-> <<>>]

\* lines 896-907 of create_zip for record p: the locals, and whether a
\* .strip() or .endswith() of a value that is no string, or
\* generate_attachment_docx, raised
ZipFields(p) ==
    LET pid == Get(p, "prompt_id", PyStr(<<"P01">>))
        rawtopic == Get(p, "demonstrated_ai_capability", PyStr(<<"Prompt">>))
        topic == Strip(rawtopic.v)
        has_att == Truthy(Get(p, "attachment_required", PyNone))
        att == IF has_att THEN generate_attachment_docx(p) ELSE NoBytes
        name0 == IF has_att
                 THEN Get(p, "attachment_filename", PyStr(<<"Attachment", ".", "docx">>))
                 ELSE PyNone
        att_name == IF Truthy(name0) /\ IsStr(name0) /\ ~EndsWith(name0.v, DocxExt)
                    THEN PyStr(RSplitDot(name0.v) \o DocxExt)
                    ELSE name0
    IN  [ok |-> /\ IsStr(rawtopic)
                /\ att.ret # "raise"
                /\ (Truthy(name0) => IsStr(name0)),
         pid |-> pid,
         topic |-> topic,
         has_att |-> has_att,
         att_bytes |-> att,
         att_name |-> att_name,
         prompt_fname |-> Format(pid) \o <<" - ">> \o topic \o DocxExt]

\* lines 916-923 of create_zip: the standalone attachment's entry name
ZipAttName(p, pid) ==
    LET raw == Get(p, "attachment_description", PyStr(<<"Sample">>))
        stripped == Strip(raw.v)
        short_desc == IF Len(stripped) > DescMaxLen
                      THEN RStrip(SubSeq(stripped, 1, DescMaxLen))
                      ELSE stripped
    IN  [ok |-> IsStr(raw),
         name |-> Format(pid) \o <<" - Sample Attachment - ">>
                  \o Sanitize(short_desc) \o DocxExt]

NoZloc ==
    [pid |-> PyNone, topic |-> <<>>, has_att |-> FALSE, att_bytes |-> NoBytes,
     att_name |-> PyNone, prompt_fname |-> <<>>, entries |-> <<>>]

NoLoc == [pid |-> PyNone, topic |-> <<>>, file_label |-> <<>>, att |-> PyNone]

\* create_zip reads the record's fields and builds the attachment
ZipRecord ==
    /\ dpc = "zip"
    /\ LET z == ZipFields(data)
       IN  IF z.ok
           THEN /\ zloc' = [pid |-> z.pid, topic |-> z.topic,
                            has_att |-> z.has_att, att_bytes |-> z.att_bytes,
                            att_name |-> z.att_name,
                            prompt_fname |-> z.prompt_fname, entries |-> <<>>]
                /\ dpc' = "create"
           ELSE /\ zloc' = zloc
                /\ dpc' = "raised"
    /\ UNCHANGED <<template, doc, data, loc, row, writes, visited>>

\* create_prompt_docx up to the table scan: open the template, read the
\* locals, set data['attachment_text']
DocStart ==
    /\ dpc = "create"
    /\ LET f == DocFields(data)
       IN  IF f.ok
           THEN /\ loc' = [pid |-> f.pid, topic |-> f.topic,
                           file_label |-> f.file_label, att |-> f.att]
                /\ data' = f.data
                /\ doc' = [r \in 1..Len(template) |-> template[r].tc]
                /\ row' = 1
                /\ dpc' = "scan"
           ELSE /\ dpc' = "raised"
                /\ UNCHANGED <<loc, data, doc, row>>
    /\ UNCHANGED <<template, zloc, writes, visited>>

\* one pass of 'for row in tbl.rows'
DocRow ==
    /\ dpc = "scan"
    /\ row <= Len(template)
    /\ LET res == ScanRow(template[row].cells, doc[row], row, data, loc.pid)
       IN  /\ doc' = [doc EXCEPT ![row] = res.tc]
           /\ writes' = writes \o res.ws
           /\ visited' = Append(visited, row)
           /\ IF res.ok
              THEN row' = NextRow(row) /\ dpc' = dpc
              ELSE row' = row /\ dpc' = "raised"
    /\ UNCHANGED <<template, data, zloc, loc>>

\* the scan is over: the document is saved and written to the archive
DocFinish ==
    /\ dpc = "scan"
    /\ row > Len(template)
    /\ zloc' = [zloc EXCEPT !.entries = @ \o <<zloc.prompt_fname>>]
    /\ dpc' = "written"
    /\ UNCHANGED <<template, doc, data, loc, row, writes, visited>>

\* the standalone attachment file, when there is one
ZipAttachment ==
    /\ dpc = "written"
    /\ IF zloc.att_bytes.ret = "bytes" /\ Truthy(zloc.att_name)
       THEN LET a == ZipAttName(data, zloc.pid)
            IN  IF a.ok
                THEN /\ zloc' = [zloc EXCEPT !.entries = @ \o <<a.name>>]
                     /\ dpc' = "done"
                ELSE /\ zloc' = zloc
                     /\ dpc' = "raised"
       ELSE zloc' = zloc /\ dpc' = "done"
    /\ UNCHANGED <<template, doc, data, loc, row, writes, visited>>

-----------------------------------------------------------------------------
(* Spec: create_zip on one record and one template *)

Keys ==
    {"prompt_id", "ai_prompt", "email_message", "learning_objective",
     "demonstrated_ai_capability", "test_response", "attachment_required",
     "attachment_description", "attachment_filename", "attachment_content"}

\* a record as the request to the LLM asks for it, with an attachment
FullRecord ==
    [prompt_id                  |-> PyStr(<<"DP07">>),
     ai_prompt                  |-> PyStr(<<"S", "u", "m">>),
     email_message              |-> PyStr(<<"H", "i", "\n", "-", " ", "x">>),
     learning_objective         |-> PyStr(<<"L">>),
     demonstrated_ai_capability |-> PyStr(<<" ", "C", "a", "p">>),
     test_response              |-> PyStr(<<"*", "*", "T", "*", "*", " ", "r">>),
     attachment_required        |-> PyBool(TRUE),
     attachment_description     |-> PyStr(<<"Q", "3", ":", "r">>),
     attachment_filename        |-> PyStr(<<"Q3", ".", "csv">>),
     attachment_content         |-> PyStr(<<"T", ":", "\n", "-", " ", "p">>)]

Restrict(d, ks) == [k \in ks |-> d[k]]

\* values of the wrong type for a string field
WrongValues ==
    {PyInt("5"), PyInt("0"), PyNone, PyList(<<"x">>), PyList(<<>>), PyBool(TRUE)}

\* values of attachment_required
RequiredValues ==
    {PyBool(TRUE), PyBool(FALSE), PyNone, PyStr(<<"no">>), PyStr(<<>>), PyInt("1")}

\* records that omit any subset of the keys
PartialRecords == {Restrict(FullRecord, ks) : ks \in SUBSET Keys}

\* records with one field of a wrong type
WrongTypedRecords ==
    {[FullRecord EXCEPT ![k] = w] : k \in Keys \ {"attachment_required"},
                                    w \in WrongValues}
    \cup {[FullRecord EXCEPT !["attachment_required"] = w] : w \in RequiredValues}

\* records scanned against every table
ScanRecords ==
    {FullRecord,
     [FullRecord EXCEPT !["attachment_required"] = PyBool(FALSE)],
     Restrict(FullRecord, Keys \ {"attachment_required", "email_message"}),
     [FullRecord EXCEPT !["email_message"] = PyInt("5")]}

TemplateText == <<"tpl">>

Para(t) == [kind |-> "plain", ind |-> FALSE, runs |-> <<make_run(t, FALSE)>>]

\* a template row: row.cells, and each underlying cell's paragraphs; the first
\* cell holds left, the others the template's own text
TemplateRow(cells, left) ==
    [cells |-> cells,
     tc |-> [c \in {cells[k] : k \in 1..Len(cells)} |->
                IF c = cells[1] THEN <<Para(left)>> ELSE <<Para(TemplateText)>>]]

\* row.cells of the rows tried: a merged cell repeats
RowShapes == {<<1>>, <<1, 2>>, <<1, 2, 2, 3>>, <<1, 2, 3, 4>>}

\* first-cell texts of the rows tried
LeftTexts ==
    {<<"x">>,
     <<"DP##", "-", "_">>,
     <<" ", "FP##", "E-Mail Message">>,
     <<"Attachment (if required)", ":">>,
     <<"Test Response", "/", "E-Mail Message">>}

TemplateRows == {TemplateRow(cs, l) : cs \in RowShapes, l \in LeftTexts}

\* the layout the code's comments describe: the header row with three cells,
\* then one row per label
StdTemplate ==
    <<TemplateRow(<<1, 2, 3>>, <<"DP##", "-", "_">>)>>
    \o [k \in 1..Len(label_to_key) |->
           TemplateRow(<<1, 2, 2>>, <<label_to_key[k].label>>)]

DocIdle ==
    /\ template = <<>>
    /\ doc = <<>>
    /\ data = <<>>
    /\ zloc = NoZloc
    /\ loc = NoLoc
    /\ row = 0
    /\ writes = <<>>
    /\ visited = <<>>
    /\ dpc = "idle"

\* every table of up to MaxRows rows with a few records, and the standard
\* template with every partial or wrong-typed record
DocInit ==
    /\ \/ /\ \E n \in 0..MaxRows : template \in [1..n -> TemplateRows]
          /\ data \in ScanRecords
       \/ /\ template = StdTemplate
          /\ data \in PartialRecords \cup WrongTypedRecords
    /\ doc = <<>>
    /\ zloc = NoZloc
    /\ loc = NoLoc
    /\ row = 0
    /\ writes = <<>>
    /\ visited = <<>>
    /\ dpc = "zip"

-----------------------------------------------------------------------------
(* The generate button handler and the results section *)

\* a decoded JSON value that is an object: the record d
Obj(d) == [ty |-> "dict", v |-> <<>>, d |-> d]
\* a decoded JSON value that is no object
Scalar(val) == [ty |-> val.ty, v |-> val.v, d |-> <<>>]
\* a decoded JSON array
Arr(items) == [ty |-> "list", items |-> items]
\* a decoded JSON value that is no array
NonArr(ty) == [ty |-> ty, items |-> <<>>]

\* the rest of the table scan from row r on: does it complete
RECURSIVE ScanCompletes(_, _, _, _)
ScanCompletes(tpl, r, d, pid) ==
    \/ r > Len(tpl)
    \/ /\ ScanRow(tpl[r].cells, tpl[r].tc, r, d, pid).ok
       /\ ScanCompletes(tpl, NextRow(r), d, pid)

\* create_prompt_docx(d, ...) returns instead of raising
create_prompt_docx_returns(d, tpl) ==
    LET f == DocFields(d)
    IN  f.ok /\ ScanCompletes(tpl, 1, f.data, f.pid)

\* the body of create_zip's loop for list element e returns instead of
\* raising; p.get of an element that is no dict raises AttributeError
ZipElementReturns(e, tpl) ==
    /\ e.ty = "dict"
    /\ LET z == ZipFields(e.d)
       IN  /\ z.ok
           /\ create_prompt_docx_returns(e.d, tpl)
           /\ (z.att_bytes.ret = "bytes" /\ Truthy(z.att_name)) =>
                  ZipAttName(e.d, z.pid).ok

\* create_zip(prompts, ...) returns instead of raising
create_zip_returns(prompts, tpl) ==
    \A k \in 1..Len(prompts) : ZipElementReturns(prompts[k], tpl)

\* isinstance(result, list): all_prompts.extend(result)
Extended(list, result) == IF result.ty = "list" THEN list \o result.items ELSE list

\* (mutant) one flag for the whole result
FlaggedOnce(list, result, flag) ==
    IF result.ty = "list" THEN Append(list, flag) ELSE list

\* all_friday.extend([flag] * len(result))
Flagged(list, result, flag) ==
    IF result.ty = "list"
    THEN list \o [k \in 1..Len(result.items) |-> flag]
    ELSE list

\* the decoded values a successful call_ai_agent may return
ResultElements ==
    {Obj([FullRecord EXCEPT !["attachment_required"] = PyBool(FALSE)]),
     Obj(FullRecord),
     Scalar(PyInt("5"))}
LLMResults ==
    {Arr(<<>>)}
    \cup {Arr(<<e>>) : e \in ResultElements}
    \cup {Arr(<<e1, e2>>) : e1 \in ResultElements, e2 \in ResultElements}
    \cup {NonArr("dict"), NonArr("NoneType")}

\* sidebar values: the agent, the industry, the key, the two counts
AllInputs ==
    [ai_agent : {"", "Claude AI"}, industry : {"", "Legal"},
     api_key : {"", " ", "sk-ant-1"}, num_daily : 0..1, num_friday : 0..1]

NoInputs == [ai_agent |-> "", industry |-> "", api_key |-> "",
             num_daily |-> 0, num_friday |-> 0]

GenIdle ==
    /\ generated_prompts = <<>>
    /\ is_friday_list = <<>>
    /\ inputs = NoInputs
    /\ all_prompts = <<>>
    /\ all_friday = <<>>
    /\ calls = <<>>
    /\ gerr = "none"
    /\ zip_result = "none"
    /\ requests = 0
    /\ gpc = "off"

\* a new session: nothing generated yet
GenInit ==
    /\ generated_prompts = <<>>
    /\ is_friday_list = <<>>
    /\ inputs = NoInputs
    /\ all_prompts = <<>>
    /\ all_friday = <<>>
    /\ calls = <<>>
    /\ gerr = "none"
    /\ zip_result = "none"
    /\ requests = 0
    /\ gpc = "idle"

\* (mutant) the click without the check of the key
GenClickKeyUnchecked ==
    /\ gpc = "idle"
    /\ requests < MaxRequests
    /\ \E in \in AllInputs :
        /\ in.num_daily + in.num_friday > 0
        /\ inputs' = in
        /\ gerr' = IF in.ai_agent = "" THEN "agent"
                   ELSE IF in.industry = "" THEN "industry"
                   ELSE "none"
    /\ gpc' = IF gerr' = "none" THEN "daily" ELSE "idle"
    /\ requests' = requests + 1
    /\ all_prompts' = <<>>
    /\ all_friday' = <<>>
    /\ calls' = <<>>
    /\ UNCHANGED <<generated_prompts, is_friday_list, zip_result>>

\* the button is clicked (it is disabled while total == 0); the three checks
\* of lines 950-960, each ending the run with st.stop()
GenClick ==
    /\ gpc = "idle"
    /\ requests < MaxRequests
    /\ \E in \in AllInputs :
        /\ in.num_daily + in.num_friday > 0
        /\ inputs' = in
        /\ gerr' = IF in.ai_agent = "" THEN "agent"
                   ELSE IF in.industry = "" THEN "industry"
                   ELSE IF in.api_key \in {"", " "} THEN "key"
                   ELSE "none"
    /\ gpc' = IF gerr' = "none" THEN "daily" ELSE "idle"
    /\ requests' = requests + 1
    /\ all_prompts' = <<>>
    /\ all_friday' = <<>>
    /\ calls' = <<>>
    /\ UNCHANGED <<generated_prompts, is_friday_list, zip_result>>

\* (mutant) a call block that swallows the error and goes on
CallBlockGoesOn(kind, count, flag, next) ==
    IF count > 0
    THEN \/ /\ calls' = Append(calls, [kind |-> kind, raised |-> TRUE,
                                      result |-> NonArr("NoneType"), added |-> 0])
            /\ gerr' = kind
            /\ gpc' = next
            /\ UNCHANGED <<all_prompts, all_friday>>
         \/ \E result \in LLMResults :
                /\ all_prompts' = Extended(all_prompts, result)
                /\ all_friday' = Flagged(all_friday, result, flag)
                /\ calls' = Append(calls,
                                   [kind |-> kind, raised |-> FALSE, result |-> result,
                                    added |-> Len(all_prompts') - Len(all_prompts)])
                /\ gpc' = next
                /\ gerr' = gerr
    ELSE /\ gpc' = next
         /\ UNCHANGED <<all_prompts, all_friday, calls, gerr>>

\* one call_ai_agent block of the handler (lines 966-984, 986-1004)
CallBlock(kind, count, flag, next) ==
    IF count > 0
    THEN \/ \* the call raises: st.error, st.stop
            /\ calls' = Append(calls, [kind |-> kind, raised |-> TRUE,
                                      result |-> NonArr("NoneType"), added |-> 0])
            /\ gerr' = kind
            /\ gpc' = "idle"
            /\ UNCHANGED <<all_prompts, all_friday>>
         \/ \* the call returns a decoded JSON value
            \E result \in LLMResults :
                /\ all_prompts' = Extended(all_prompts, result)
                /\ all_friday' = Flagged(all_friday, result, flag)
                /\ calls' = Append(calls,
                                   [kind |-> kind, raised |-> FALSE, result |-> result,
                                    added |-> Len(all_prompts') - Len(all_prompts)])
                /\ gpc' = next
                /\ gerr' = gerr
    ELSE /\ gpc' = next
         /\ UNCHANGED <<all_prompts, all_friday, calls, gerr>>

GenDaily ==
    /\ gpc = "daily"
    /\ CallBlock("daily", inputs.num_daily, FALSE, "friday")
    /\ UNCHANGED <<generated_prompts, is_friday_list, inputs, zip_result, requests>>

GenFriday ==
    /\ gpc = "friday"
    /\ CallBlock("friday", inputs.num_friday, TRUE, "store")
    /\ UNCHANGED <<generated_prompts, is_friday_list, inputs, zip_result, requests>>

\* lines 1010-1013
GenStore ==
    /\ gpc = "store"
    /\ generated_prompts' = all_prompts
    /\ is_friday_list' = all_friday
    /\ gpc' = "results"
    /\ UNCHANGED <<inputs, all_prompts, all_friday, calls, gerr, zip_result, requests>>

\* the results section of the run (lines 1018-1031): create_zip over the
\* stored records when there are any
GenResults ==
    /\ gpc = "results"
    /\ zip_result' = IF generated_prompts = <<>> THEN "none"
                     ELSE IF create_zip_returns(generated_prompts, StdTemplate)
                     THEN "ok" ELSE "raised"
    /\ gpc' = "idle"
    /\ UNCHANGED <<generated_prompts, is_friday_list, inputs, all_prompts,
                   all_friday, calls, gerr, requests>>

-----------------------------------------------------------------------------
(* create_prompt_docx as a whole: template, table scan, attachment splice *)

\* (mutant) the two template names the wrong way round
TemplateNameSwapped(is_friday) ==
    IF is_friday THEN "Daily_Prompt_Template.docx" ELSE "Friday_Prompt_Template.docx"

\* template_name (line 780)
TemplateName(is_friday) ==
    IF is_friday THEN "Friday_Prompt_Template.docx" ELSE "Daily_Prompt_Template.docx"

TemplateNames == {TemplateName(TRUE), TemplateName(FALSE)}

\* a body element: its tag, the document or step it comes from, its place
\* there, its text
Element(tag, from, n, t) == [tag |-> tag, from |-> from, n |-> n, text |-> t]

\* the body of the opened template: its table, a paragraph, and the
\* section properties as last child (line 872)
TemplateBody(name) ==
    <<Element("tbl", name, 1, <<>>), Element("p", name, 2, <<>>),
      Element("sectPr", name, 3, <<>>)>>

\* (mutant) doc.add_paragraph() appending after the section properties
add_paragraph_at_end(body, el) == Append(body, el)

\* doc.add_paragraph(): the new paragraph goes before a final sectPr
add_paragraph(body, el) ==
    IF body # <<>> /\ body[Len(body)].tag = "sectPr"
    THEN SubSeq(body, 1, Len(body) - 1) \o <<el, body[Len(body)]>>
    ELSE Append(body, el)

\* list(doc.element.body).index(el), counted from 0
IndexOf(body, el) == MinOf({k \in 1..Len(body) : body[k] = el}) - 1

\* doc.element.body.insert(idx, el), idx counted from 0
InsertAt(body, idx, el) ==
    SubSeq(body, 1, idx) \o <<el>> \o SubSeq(body, idx + 1, Len(body))

\* no attachment_bytes (None)
NoAttachment == [given |-> FALSE, readable |-> FALSE, elems |-> <<>>]

\* (mutant) the attachment bytes are lost on the way to create_prompt_docx
AttachmentDocDropped(att) == NoAttachment

\* Document(io.BytesIO(...)) of the bytes generate_attachment_docx returns:
\* its paragraphs, then the section properties of python-docx's default
AttachmentDoc(att) ==
    IF att.ret # "bytes" THEN NoAttachment
    ELSE [given |-> TRUE, readable |-> TRUE,
          elems |-> [k \in 1..Len(att.body) |->
                        Element("p", "att", k, JoinRuns(att.body[k].runs))]
                    \o <<Element("sectPr", "att", Len(att.body) + 1, <<>>)>>]

\* one pass of the loop of lines 873-879 that copies: the copy of element k
\* goes right before sect_pr
CopyElement(body, sect_pr, el, k) ==
    InsertAt(body, IndexOf(body, sect_pr), Element(el.tag, "att", k, el.text))

\* lines 873-879: the loop over the attachment's body from element k on;
\* copying element fail_at raises (0: no copy raises).  (The body after a
\* pass is bound as a value before the next pass.)
RECURSIVE CopyElements(_, _, _, _, _)
CopyElements(body, sect_pr, elems, k, fail_at) ==
    IF k > Len(elems) THEN [ok |-> TRUE, body |-> body]
    ELSE IF elems[k].tag \in {"p", "tbl"}
    THEN IF k = fail_at THEN [ok |-> FALSE, body |-> body]
         ELSE CHOOSE res \in {CopyElements(b, sect_pr, elems, k + 1, fail_at) :
                                 b \in {CopyElement(body, sect_pr, elems[k], k)}} : TRUE
    ELSE CopyElements(body, sect_pr, elems, k + 1, fail_at)

\* lines 843-884: the page break, the banner, the note, then the merge with
\* its fallback paragraph
Splice(body, att, name, fail_at) ==
    LET pb == add_paragraph(body, Element("p", "pagebreak", 0, <<>>))
        hdr == add_paragraph(pb, Element("p", "banner", 0,
                                         <<"SAMPLE ATTACHMENT -- ">> \o name))
        note == add_paragraph(hdr, Element("p", "note", 0, <<>>))
        merged == CopyElements(note, note[Len(note)], att.elems, 1, fail_at)
        fb == Element("p", "fallback", 0, <<"[Could not merge attachment]">>)
    IN  IF ~att.readable THEN add_paragraph(note, fb)
        ELSE IF ~merged.ok THEN add_paragraph(merged.body, fb)
        ELSE merged.body

Raised(err, d) == [ret |-> err, body |-> <<>>, data |-> d, opened |-> <<>>]

\* create_prompt_docx(data, is_friday, agent, industry, attachment_bytes,
\* attachment_name) with the template files in present: what it returns or
\* raises, the record afterwards, and the documents it opened
create_prompt_docx(d, is_friday, present, att, att_name, fail_at) ==
    LET name == TemplateName(is_friday)
        f == DocFields(d)
        body == TemplateBody(name)
    IN  IF name \notin present THEN Raised("FileNotFoundError", d)
        ELSE IF ~f.ok
        THEN [ret |-> "AttributeError", body |-> <<>>, data |-> d,
              opened |-> <<name>>]
        ELSE IF ~ScanCompletes(StdTemplate, 1, f.data, f.pid)
        THEN [ret |-> "AttributeError", body |-> <<>>, data |-> f.data,
              opened |-> <<name>>]
        ELSE IF att.given /\ Truthy(att_name)
        THEN [ret |-> "bytes",
              body |-> Splice(body, att, Format(att_name), fail_at),
              data |-> f.data,
              opened |-> IF att.readable THEN <<name, "attachment">> ELSE <<name>>]
        ELSE [ret |-> "bytes", body |-> body, data |-> f.data, opened |-> <<name>>]

\* --- SpecSplice: one call of create_prompt_docx ---

AttTags == {"p", "tbl", "bookmarkEnd"}

\* the attachment documents handed in: none, unreadable bytes, or a body of
\* up to MaxAtt elements before its section properties
AttachmentDocs ==
    {NoAttachment, [given |-> TRUE, readable |-> FALSE, elems |-> <<>>]}
    \cup {[given |-> TRUE, readable |-> TRUE,
           elems |-> [k \in 1..Len(tags) |-> Element(tags[k], "att", k, <<>>)]
                     \o <<Element("sectPr", "att", Len(tags) + 1, <<>>)>>] :
             tags \in SeqsUpTo(AttTags, MaxAtt)}

AttachmentNames == {PyNone, PyStr(<<>>), PyStr(<<"Q3", ".", "docx">>)}

SpliceRecords == {FullRecord, [FullRecord EXCEPT !["email_message"] = PyInt("5")]}

NoRet == [ret |-> "none", body |-> <<>>, data |-> <<>>, opened |-> <<>>]

\* fail_at: the copy the environment makes raise during the call (0: none)
NoArgs == [data |-> <<>>, is_friday |-> FALSE, present |-> {},
           attachment_bytes |-> NoAttachment, attachment_name |-> PyNone,
           fail_at |-> 0]

SpIdle ==
    /\ cpd_args = NoArgs
    /\ cpd_ret = NoRet
    /\ cpc = "off"

SpInit ==
    /\ cpd_args \in [data : SpliceRecords, is_friday : BOOLEAN,
                     present : SUBSET TemplateNames,
                     attachment_bytes : AttachmentDocs,
                     attachment_name : AttachmentNames,
                     fail_at : 0..MaxAtt]
    /\ cpd_ret = NoRet
    /\ cpc = "call"

\* the call, from entry to return or raise
CreatePromptDocx ==
    /\ cpc = "call"
    /\ cpd_ret' = create_prompt_docx(cpd_args.data, cpd_args.is_friday,
                                     cpd_args.present, cpd_args.attachment_bytes,
                                     cpd_args.attachment_name, cpd_args.fail_at)
    /\ cpc' = IF cpd_ret'.ret = "bytes" THEN "returned" ELSE "raised"
    /\ UNCHANGED cpd_args

\* --- SpecZip: create_zip over a list of records ---

Entry(name, kind, rec, body) ==
    [name |-> name, kind |-> kind, rec |-> rec, body |-> body]

\* the records packaged: with an attachment, without, with attachment
\* required and empty content, blank content, an empty file name, content
\* of a wrong type
ZipRecords ==
    {FullRecord,
     [FullRecord EXCEPT !["attachment_required"] = PyBool(FALSE)],
     [FullRecord EXCEPT !["attachment_content"] = PyStr(<<>>)],
     [FullRecord EXCEPT !["attachment_content"] = PyStr(<<" ", "\n">>)],
     [FullRecord EXCEPT !["attachment_filename"] = PyStr(<<>>)],
     [FullRecord EXCEPT !["attachment_content"] = PyInt("5")]}

ZipIdle ==
    /\ zprompts = <<>>
    /\ flags = <<>>
    /\ templates = {}
    /\ zi = 0
    /\ archive = <<>>
    /\ zpc = "off"

ZipInit ==
    /\ \E n \in 0..MaxRecords :
        /\ zprompts \in [1..n -> ZipRecords]
        /\ flags \in [1..n -> BOOLEAN]
    /\ templates \in SUBSET TemplateNames
    /\ zi = 1
    /\ archive = <<>>
    /\ zpc = "loop"

\* one pass of create_zip's loop (lines 895-923).  The attachment handed to
\* create_prompt_docx is the one generate_attachment_docx just built, which
\* python-docx reads back, so no copy fails here.
ZipOne ==
    /\ zpc = "loop"
    /\ zi <= Len(zprompts)
    /\ \E z \in {ZipFields(zprompts[zi])} :
       \E doc_att \in {AttachmentDoc(z.att_bytes)} :
       \E r \in {create_prompt_docx(zprompts[zi], flags[zi], templates,
                                    doc_att, z.att_name, 0)} :
       \E a \in {ZipAttName(r.data, z.pid)} :
       LET main == Entry(z.prompt_fname, "main", zi, r.body)
           att == Entry(a.name, "att", zi, z.att_bytes.body)
       IN  IF ~z.ok
           THEN /\ zpc' = "raised"
                /\ UNCHANGED <<zprompts, zi, archive>>
           ELSE IF r.ret # "bytes"
           THEN /\ zpc' = "raised"
                /\ zprompts' = [zprompts EXCEPT ![zi] = r.data]
                /\ UNCHANGED <<zi, archive>>
           ELSE IF z.att_bytes.ret = "bytes" /\ Truthy(z.att_name)
           THEN IF a.ok
                THEN /\ archive' = archive \o <<main, att>>
                     /\ zprompts' = [zprompts EXCEPT ![zi] = r.data]
                     /\ zi' = zi + 1
                     /\ zpc' = zpc
                ELSE /\ archive' = Append(archive, main)
                     /\ zprompts' = [zprompts EXCEPT ![zi] = r.data]
                     /\ zpc' = "raised"
                     /\ zi' = zi
           ELSE /\ archive' = Append(archive, main)
                /\ zprompts' = [zprompts EXCEPT ![zi] = r.data]
                /\ zi' = zi + 1
                /\ zpc' = zpc
    /\ UNCHANGED <<flags, templates>>

\* the list is exhausted: the ZipFile is closed and the bytes returned
ZipClose ==
    /\ zpc = "loop"
    /\ zi > Len(zprompts)
    /\ zpc' = "done"
    /\ UNCHANGED <<zprompts, flags, templates, zi, archive>>

-----------------------------------------------------------------------------
(* The allowlist store: _load_domains, _save_domains, Access Management *)

SSA_ADMIN_DOMAIN == <<"@", "ssaandco.com">>

\* (mutant) _load_domains returning the file's list as it is
load_domains_as_is(file) ==
    IF file.kind = "json" /\ file.domains # <<>> THEN file.domains
    ELSE <<SSA_ADMIN_DOMAIN>>

\* x in list
InList(x, list) == \E k \in 1..Len(list) : list[k] = x

\* _load_domains(): the file's list when the file exists, parses and holds a
\* non-empty list, with the admin domain put first when missing; else the
\* admin domain alone
load_domains(file) ==
    IF file.kind = "json" /\ file.domains # <<>>
    THEN IF ~InList(SSA_ADMIN_DOMAIN, file.domains)
         THEN <<SSA_ADMIN_DOMAIN>> \o file.domains
         ELSE file.domains
    ELSE <<SSA_ADMIN_DOMAIN>>

\* _save_domains(domains): the list after the insert of lines 51-52 (the
\* caller's list object itself), which is also what the file then holds
save_domains(domains) ==
    IF ~InList(SSA_ADMIN_DOMAIN, domains)
    THEN <<SSA_ADMIN_DOMAIN>> \o domains
    ELSE domains

JsonFile(domains) == [kind |-> "json", domains |-> domains]

\* str.lower() on the tokens of a domain
LowerToken(t) ==
    CASE t = "PARTNER.COM" -> "partner.com"
      [] t = "SSAandCo.com" -> "ssaandco.com"
      [] OTHER -> t
Lower(s) == [k \in 1..Len(s) |-> LowerToken(s[k])]

\* the host names the pattern of line 309 accepts after the '@'
ValidHosts == {"partner.com", "x.org", "ssaandco.com"}
MatchesDomain(nd) == Len(nd) = 2 /\ nd[1] = "@" /\ nd[2] \in ValidHosts

\* lines 303-305: the text typed, stripped, lower-cased, '@' put in front
NewDomain(new_domain) ==
    LET nd == Lower(Strip(new_domain))
    IN  IF nd # <<>> /\ ~StartsWith(nd, <<"@">>) THEN <<"@">> \o nd ELSE nd

\* what may be typed into the domain field
TypedDomains ==
    {<<>>, <<" ">>, <<"partner.com">>, <<" ", "@", "PARTNER.COM", " ">>,
     <<"@", "x.org">>, <<"nodot">>, <<"SSAandCo.com">>}

Sessions == 1..MaxSessions

\* the file before the first session: absent (a new installation), not
\* parseable, or a list, saved by an earlier run or edited by hand
InitialFiles ==
    {[kind |-> "absent", domains |-> <<>>],
     [kind |-> "corrupt", domains |-> <<>>],
     JsonFile(<<>>),
     JsonFile(<<SSA_ADMIN_DOMAIN, <<"@", "partner.com">>>>),
     JsonFile(<<<<"@", "partner.com">>>>)}

DomIdle ==
    /\ domains_file = [kind |-> "absent", domains |-> <<>>]
    /\ allowed_domains = <<>>
    /\ last_op = "off"

\* no session has run yet; <<>> stands for a session without the
\* "allowed_domains" key
DomInit ==
    /\ domains_file \in InitialFiles
    /\ allowed_domains = [s \in Sessions |-> <<>>]
    /\ last_op = "none"

\* lines 59-60: the first run of a session loads the list
LoadDomains ==
    \E s \in Sessions :
        /\ allowed_domains[s] = <<>>
        /\ allowed_domains' = [allowed_domains EXCEPT ![s] = load_domains(domains_file)]
        /\ last_op' = "load"
        /\ UNCHANGED domains_file

\* lines 286-293: a remove button is clicked; the button of the admin
\* domain is disabled
RemoveDomain ==
    \E s \in Sessions :
        /\ allowed_domains[s] # <<>>
        /\ \E k \in 1..Len(allowed_domains[s]) :
            LET to_remove == allowed_domains[s][k]
                updated == SelectSeq(allowed_domains[s], LAMBDA d : d # to_remove)
            IN  /\ Lower(Strip(to_remove)) # SSA_ADMIN_DOMAIN
                /\ allowed_domains' = [allowed_domains EXCEPT ![s] = save_domains(updated)]
                /\ domains_file' = JsonFile(save_domains(updated))
        /\ last_op' = "remove"

\* (mutant) an Add that reads the file again before it saves
AddDomainReloads ==
    \E s \in Sessions, new_domain \in TypedDomains :
        /\ allowed_domains[s] # <<>>
        /\ LET nd == NewDomain(new_domain)
               updated == Append(load_domains(domains_file), nd)
           IN  IF nd # <<>> /\ ~InList(nd, load_domains(domains_file)) /\ MatchesDomain(nd)
               THEN /\ allowed_domains' = [allowed_domains EXCEPT ![s] = save_domains(updated)]
                    /\ domains_file' = JsonFile(save_domains(updated))
                    /\ last_op' = "add"
               ELSE /\ UNCHANGED <<allowed_domains, domains_file>>
                    /\ last_op' = "add-refused"

\* lines 302-315: the Add button is clicked
AddDomain ==
    \E s \in Sessions, new_domain \in TypedDomains :
        /\ allowed_domains[s] # <<>>
        /\ LET nd == NewDomain(new_domain)
               updated == Append(allowed_domains[s], nd)
           IN  IF nd # <<>> /\ ~InList(nd, allowed_domains[s]) /\ MatchesDomain(nd)
               THEN /\ allowed_domains' = [allowed_domains EXCEPT ![s] = save_domains(updated)]
                    /\ domains_file' = JsonFile(save_domains(updated))
                    /\ last_op' = "add"
               ELSE /\ UNCHANGED <<allowed_domains, domains_file>>
                    /\ last_op' = "add-refused"

-----------------------------------------------------------------------------
(* SpecCells: _unique_cells on one row *)

\* the underlying cells (w:tc elements) a row may hold
CellIds == {1, 2, 3}

CellsIdle ==
    /\ row_cells = <<>>
    /\ unique = <<>>
    /\ ucpc = "off"

CellsInit ==
    /\ row_cells \in SeqsUpTo(CellIds, MaxCols)
    /\ unique = <<>>
    /\ ucpc = "call"

\* _unique_cells(row)
UniqueCells ==
    /\ ucpc = "call"
    /\ unique' = unique_cells(row_cells)
    /\ ucpc' = "returned"
    /\ UNCHANGED row_cells

-----------------------------------------------------------------------------
(* SpecHeader: lines 796-801 of create_prompt_docx, the header label *)

\* 'header' in rel.reltype.lower(), for the relationship types of a document
\* part
IsHeaderRel(rel) == rel.reltype = "header"

\* the positions <<part, node>> of the w:t nodes of the related parts, and
\* the document order _update_header_filename meets them in
TextNodes(parts) ==
    UNION {{<<i, j>> : j \in 1..Len(parts[i].nodes)} : i \in 1..Len(parts)}
Before(p, q) == p[1] < q[1] \/ (p[1] = q[1] /\ p[2] < q[2])

\* (mutant) _update_header_filename testing only 't.text'
update_header_filename_nonempty(parts, filename) ==
    LET hits == {p \in TextNodes(parts) :
                    /\ IsHeaderRel(parts[p[1]])
                    /\ parts[p[1]].nodes[p[2]] # <<>>}
    IN  IF hits = {} THEN parts
        ELSE LET first == CHOOSE p \in hits : \A q \in hits : ~Before(q, p)
             IN  [parts EXCEPT ![first[1]].nodes[first[2]] = filename]

\* _update_header_filename(doc, filename): the first w:t of a header part
\* with 't.text and t.text.strip()' gets the file name, then it returns
update_header_filename(parts, filename) ==
    LET hits == {p \in TextNodes(parts) :
                    /\ IsHeaderRel(parts[p[1]])
                    /\ parts[p[1]].nodes[p[2]] # <<>>
                    /\ Strip(parts[p[1]].nodes[p[2]]) # <<>>}
    IN  IF hits = {} THEN parts
        ELSE LET first == CHOOSE p \in hits : \A q \in hits : ~Before(q, p)
             IN  [parts EXCEPT ![first[1]].nodes[first[2]] = filename]

\* the text of a w:t node: none, blank, or words
NodeTexts == {<<>>, <<" ">>, <<"Old">>}

\* the parts related to the template: header parts with up to MaxNodes text
\* nodes, and a footer part
Parts ==
    {[reltype |-> "header", nodes |-> ns] : ns \in SeqsUpTo(NodeTexts, MaxNodes)}
    \cup {[reltype |-> "footer", nodes |-> <<<<"Old">>>>]}

HeaderRecords ==
    {FullRecord,
     Restrict(FullRecord, Keys \ {"prompt_id", "demonstrated_ai_capability"}),
     [FullRecord EXCEPT !["prompt_id"] = PyInt("5")],
     [FullRecord EXCEPT !["demonstrated_ai_capability"] = PyInt("5")]}

HdrIdle ==
    /\ rels = <<>>
    /\ rels0 = <<>>
    /\ hdata = <<>>
    /\ hpc = "off"

\* after doc = Document(template_path), line 792
HdrInit ==
    /\ rels \in SeqsUpTo(Parts, MaxParts)
    /\ rels0 = rels
    /\ hdata \in HeaderRecords
    /\ hpc = "opened"

\* lines 796-801: the label from the record, then the header update
UpdateHeader ==
    /\ hpc = "opened"
    /\ \E f \in {DocFields(hdata)} :
          IF ~f.ok
          THEN /\ hpc' = "raised"
               /\ UNCHANGED rels
          ELSE /\ rels' = update_header_filename(rels, f.file_label)
               /\ hpc' = "labelled"
    /\ UNCHANGED <<rels0, hdata>>

-----------------------------------------------------------------------------
(* SpecSettings: _fix_template_ref *)

\* 'attachedTemplate' in child.tag
IsAttachedTemplate(tag) == tag = "attachedTemplate"

\* (mutant) the loop run over the live element instead of list(...): the
\* child after a removed one is skipped
RECURSIVE RemoveAttachedLive(_)
RemoveAttachedLive(children) ==
    IF children = <<>> THEN <<>>
    ELSE IF IsAttachedTemplate(Head(children))
    THEN IF Len(children) = 1 THEN <<>>
         ELSE <<children[2]>> \o RemoveAttachedLive(Tail(Tail(children)))
    ELSE <<Head(children)>> \o RemoveAttachedLive(Tail(children))

\* lines 753-755: for child in list(settings_part), remove the child whose
\* tag holds 'attachedTemplate'
RECURSIVE RemoveAttached(_)
RemoveAttached(children) ==
    IF children = <<>> THEN <<>>
    ELSE IF IsAttachedTemplate(Head(children))
    THEN RemoveAttached(Tail(children))
    ELSE <<Head(children)>> \o RemoveAttached(Tail(children))

\* _fix_template_ref(doc): the loop over doc.part.rels (lines 748-750) only
\* passes; the children of doc.settings.element are filtered
fix_template_ref(s) == [s EXCEPT !.children = RemoveAttached(s.children)]

SettingTags == {"attachedTemplate", "zoom", "compat"}

\* the settings of a template: up to MaxSettings children, and whether the
\* settings part has a relationship to an external template
TemplateSettings ==
    {[children |-> c, template_rel |-> r] :
        c \in SeqsUpTo(SettingTags, MaxSettings), r \in BOOLEAN}

NoSettings == [children |-> <<>>, template_rel |-> FALSE]

SetIdle ==
    /\ settings = NoSettings
    /\ settings0 = NoSettings
    /\ fix_runs = -1

\* after doc = Document(template_path), line 792
SetInit ==
    /\ settings \in TemplateSettings
    /\ settings0 = settings
    /\ fix_runs = 0

\* _fix_template_ref(doc), on whatever the document holds
FixTemplateRef ==
    /\ fix_runs \in 0..(MaxRuns - 1)
    /\ settings' = fix_template_ref(settings)
    /\ fix_runs' = fix_runs + 1
    /\ UNCHANGED settings0

vars == <<renVars, docVars, genVars, spVars, zipVars, domVars, cellVars, hdrVars, setVars>>

Init == DocInit /\ RenIdle /\ GenIdle /\ SpIdle /\ ZipIdle /\ DomIdle /\ CellsIdle /\ HdrIdle /\ SetIdle

Next ==
    \/ ZipRecord /\ UNCHANGED <<renVars, genVars, spVars, zipVars, domVars, cellVars, hdrVars, setVars>>
    \/ DocStart /\ UNCHANGED <<renVars, genVars, spVars, zipVars, domVars, cellVars, hdrVars, setVars>>
    \/ DocRow /\ UNCHANGED <<renVars, genVars, spVars, zipVars, domVars, cellVars, hdrVars, setVars>>
    \/ DocFinish /\ UNCHANGED <<renVars, genVars, spVars, zipVars, domVars, cellVars, hdrVars, setVars>>
    \/ ZipAttachment /\ UNCHANGED <<renVars, genVars, spVars, zipVars, domVars, cellVars, hdrVars, setVars>>

Spec == Init /\ [][Next]_vars

RenderNext ==
    \/ RenderCell /\ UNCHANGED <<docVars, genVars, spVars, zipVars, domVars, cellVars, hdrVars, setVars>>
    \/ RenderAttachment /\ UNCHANGED <<docVars, genVars, spVars, zipVars, domVars, cellVars, hdrVars, setVars>>

InitRender == RenderInit /\ DocIdle /\ GenIdle /\ SpIdle /\ ZipIdle /\ DomIdle /\ CellsIdle /\ HdrIdle /\ SetIdle

SpecRender == InitRender /\ [][RenderNext]_vars

GenNext ==
    \/ GenClick /\ UNCHANGED <<renVars, docVars, spVars, zipVars, domVars, cellVars, hdrVars, setVars>>
    \/ GenDaily /\ UNCHANGED <<renVars, docVars, spVars, zipVars, domVars, cellVars, hdrVars, setVars>>
    \/ GenFriday /\ UNCHANGED <<renVars, docVars, spVars, zipVars, domVars, cellVars, hdrVars, setVars>>
    \/ GenStore /\ UNCHANGED <<renVars, docVars, spVars, zipVars, domVars, cellVars, hdrVars, setVars>>
    \/ GenResults /\ UNCHANGED <<renVars, docVars, spVars, zipVars, domVars, cellVars, hdrVars, setVars>>

InitGen == GenInit /\ RenIdle /\ DocIdle /\ SpIdle /\ ZipIdle /\ DomIdle /\ CellsIdle /\ HdrIdle /\ SetIdle

SpecGen == InitGen /\ [][GenNext]_vars

SpliceNext == CreatePromptDocx /\ UNCHANGED <<renVars, docVars, genVars, zipVars, domVars, cellVars, hdrVars, setVars>>

InitSplice == SpInit /\ RenIdle /\ DocIdle /\ GenIdle /\ ZipIdle /\ DomIdle /\ CellsIdle /\ HdrIdle /\ SetIdle

SpecSplice == InitSplice /\ [][SpliceNext]_vars

ZipNext ==
    \/ ZipOne /\ UNCHANGED <<renVars, docVars, genVars, spVars, domVars, cellVars, hdrVars, setVars>>
    \/ ZipClose /\ UNCHANGED <<renVars, docVars, genVars, spVars, domVars, cellVars, hdrVars, setVars>>

InitZip == ZipInit /\ RenIdle /\ DocIdle /\ GenIdle /\ SpIdle /\ DomIdle /\ CellsIdle /\ HdrIdle /\ SetIdle

SpecZip == InitZip /\ [][ZipNext]_vars

DomainsNext ==
    \/ LoadDomains /\ UNCHANGED <<renVars, docVars, genVars, spVars, zipVars, cellVars, hdrVars, setVars>>
    \/ RemoveDomain /\ UNCHANGED <<renVars, docVars, genVars, spVars, zipVars, cellVars, hdrVars, setVars>>
    \/ AddDomain /\ UNCHANGED <<renVars, docVars, genVars, spVars, zipVars, cellVars, hdrVars, setVars>>

InitDomains == DomInit /\ RenIdle /\ DocIdle /\ GenIdle /\ SpIdle /\ ZipIdle /\ CellsIdle /\ HdrIdle /\ SetIdle

SpecDomains == InitDomains /\ [][DomainsNext]_vars

CellsNext == UniqueCells /\ UNCHANGED <<renVars, docVars, genVars, spVars, zipVars, domVars, hdrVars, setVars>>

InitCells == CellsInit /\ RenIdle /\ DocIdle /\ GenIdle /\ SpIdle /\ ZipIdle /\ DomIdle /\ HdrIdle /\ SetIdle

SpecCells == InitCells /\ [][CellsNext]_vars

HeaderNext == UpdateHeader /\ UNCHANGED <<renVars, docVars, genVars, spVars, zipVars, domVars, cellVars, setVars>>

InitHeader == HdrInit /\ RenIdle /\ DocIdle /\ GenIdle /\ SpIdle /\ ZipIdle /\ DomIdle /\ CellsIdle /\ SetIdle

SpecHeader == InitHeader /\ [][HeaderNext]_vars

SettingsNext == FixTemplateRef /\ UNCHANGED <<renVars, docVars, genVars, spVars, zipVars, domVars, cellVars, hdrVars>>

InitSettings == SetInit /\ RenIdle /\ DocIdle /\ GenIdle /\ SpIdle /\ ZipIdle /\ DomIdle /\ CellsIdle /\ HdrIdle

SpecSettings == InitSettings /\ [][SettingsNext]_vars

-----------------------------------------------------------------------------
(* Vocabulary of the properties of the table scan *)

\* the rows of the open document
DocRows == 1..Len(doc)

\* the rows whose loop body has run to its end
ScannedRows == IF dpc = "raised" THEN 1..(row - 1) ELSE {r \in DocRows : r < row}

ScanOver == dpc \in {"written", "done"}

DistinctCells(r) == unique_cells(template[r].cells)
NumDistinct(r) == Len(DistinctCells(r))
FirstCell(r) == DistinctCells(r)[1]
LastCell(r) == DistinctCells(r)[NumDistinct(r)]
CellsOf(r) == DOMAIN template[r].tc

\* the text of the template's first distinct cell of row r
TemplateLeftText(r) == get_cell_text(template[r].tc[FirstCell(r)])

HasPlaceholder(r) ==
    \/ Contains(TemplateLeftText(r), "DP##")
    \/ Contains(TemplateLeftText(r), "FP##")

\* the five labels in the order the properties state, with their fields
OrderedLabels ==
    <<"E-Mail Message", "Learning Objective", "Demonstrated AI Capability",
      "Test Response", "Attachment (if required)">>
OrderedFields ==
    <<"email_message", "learning_objective", "demonstrated_ai_capability",
      "test_response", "attachment_text">>

LabelsIn(r) == {k \in 1..5 : Contains(TemplateLeftText(r), OrderedLabels[k])}
HasLabel(r) == LabelsIn(r) # {}
FirstLabel(r) == MinOf(LabelsIn(r))

\* the _set_cell_text calls made on row r, in order
RECURSIVE WritesOfRow(_, _)
WritesOfRow(ws, r) ==
    IF ws = <<>> THEN <<>>
    ELSE (IF Head(ws).row = r THEN <<Head(ws)>> ELSE <<>>) \o WritesOfRow(Tail(ws), r)

RowWrites(r) == WritesOfRow(writes, r)

\* cell c of row r is as the template has it and no call was made on it
Untouched(r, c) ==
    /\ doc[r][c] = template[r].tc[c]
    /\ \A k \in 1..Len(writes) : ~(writes[k].row = r /\ writes[k].cell = c)

\* the paragraphs a string value leaves in a cell
Rendered(val, bold) == SetCellParas(IF IsStr(val) THEN val.v ELSE <<>>, bold)

-----------------------------------------------------------------------------
(* C1 *)

\* C1 as stated: the first distinct cell of every row whose first cell text
\* contains a label, and the second distinct cell of every row whose first
\* cell text contains DP## or FP##, keep their content.  Refuted: a row whose
\* text contains both a placeholder and a label is a header row, and its
\* first cell receives the prompt id.
C1_LabelCellsKeptAsStated ==
    \A r \in DocRows :
        /\ HasLabel(r) => Untouched(r, FirstCell(r))
        /\ (HasPlaceholder(r) /\ NumDistinct(r) >= 2) => Untouched(r, DistinctCells(r)[2])

\* C1, amended: in every state of the scan, the first distinct cell of a row
\* that contains a label and no placeholder is untouched (also when it is the
\* row's only distinct cell), and so is the second distinct cell of a row
\* that contains a placeholder.
C1_LabelCellsKept ==
    \A r \in DocRows :
        /\ (HasLabel(r) /\ ~HasPlaceholder(r)) => Untouched(r, FirstCell(r))
        /\ (HasPlaceholder(r) /\ NumDistinct(r) >= 2) => Untouched(r, DistinctCells(r)[2])

\* a finished scan over a label row with a single distinct cell and a header
\* row with three or more
C1_Witness ==
    /\ ScanOver
    /\ \E r \in ScannedRows : HasLabel(r) /\ ~HasPlaceholder(r) /\ NumDistinct(r) = 1
    /\ \E r \in ScannedRows : HasPlaceholder(r) /\ NumDistinct(r) >= 3 /\ Len(RowWrites(r)) = 2

-----------------------------------------------------------------------------
(* C2 *)

\* C2: for every scanned row whose first cell text contains DP## or FP##,
\* the calls made are exactly: the prompt id, bold, on distinct cell 0, then
\* ai_prompt on distinct cell 2 when the row has three or more distinct
\* cells; every other cell of the row is untouched and no label field is
\* written, also when the text contains a label.
C2_HeaderRow ==
    \A r \in ScannedRows :
        HasPlaceholder(r) =>
            LET ws == RowWrites(r)
                uc == DistinctCells(r)
                pidval == IF "prompt_id" \in DOMAIN data
                          THEN data["prompt_id"] ELSE loc.pid
            IN  /\ Len(ws) = IF Len(uc) >= 3 THEN 2 ELSE 1
                /\ ws[1].cell = uc[1] /\ ws[1].key = "prompt_id"
                /\ ws[1].bold /\ ws[1].val = pidval
                /\ doc[r][uc[1]] = Rendered(pidval, TRUE)
                /\ \A p \in 1..Len(doc[r][uc[1]]) :
                     \A q \in 1..Len(doc[r][uc[1]][p].runs) :
                        doc[r][uc[1]][p].runs[q].bold
                /\ Len(uc) >= 3 =>
                     /\ ws[2].cell = uc[3] /\ ws[2].key = "ai_prompt"
                     /\ ~ws[2].bold
                     /\ ws[2].val = Get(data, "ai_prompt", PyStr(<<>>))
                     /\ doc[r][uc[3]] = Rendered(ws[2].val, FALSE)
                /\ \A c \in CellsOf(r) :
                     (c # uc[1] /\ ~(Len(uc) >= 3 /\ c = uc[3])) => Untouched(r, c)
                /\ \A k \in 1..Len(ws) :
                     \A j \in 1..5 : ws[k].key # OrderedFields[j]

\* a scanned header row with four distinct cells whose text also holds a label
C2_Witness ==
    \E r \in ScannedRows :
        /\ HasPlaceholder(r) /\ HasLabel(r)
        /\ NumDistinct(r) = 4
        /\ Len(RowWrites(r)) = 2

-----------------------------------------------------------------------------
(* C3 *)

\* what C3 says of a row: one call, on the last distinct cell, with the
\* field of the first label in the stated order
FieldWritten(r) ==
    LET ws == RowWrites(r)
        key == OrderedFields[FirstLabel(r)]
    IN  /\ Len(ws) = 1
        /\ ws[1].cell = LastCell(r)
        /\ ws[1].key = key
        /\ ws[1].val = Get(data, key, PyStr(<<>>))
        /\ ~ws[1].bold
        /\ doc[r][LastCell(r)] = Rendered(ws[1].val, FALSE)

\* C3 as stated: every scanned non-header row that contains a label has the
\* first label's field written to its last distinct cell.  Refuted by a row
\* with a single distinct cell: nothing is written to it.
C3_FirstLabelWrittenAsStated ==
    \A r \in ScannedRows : (~HasPlaceholder(r) /\ HasLabel(r)) => FieldWritten(r)

\* C3, amended: the labels are tried in the fixed order and the first one
\* contained in the first cell text decides the field, whose value is written
\* to the last distinct cell, provided the row has at least two distinct
\* cells; a row with one distinct cell gets nothing written.
C3_FirstLabelWritten ==
    \A r \in ScannedRows :
        (~HasPlaceholder(r) /\ HasLabel(r)) =>
            IF NumDistinct(r) >= 2 THEN FieldWritten(r) ELSE RowWrites(r) = <<>>

\* a scanned row holding 'Test Response' before 'E-Mail Message' in its text,
\* with four distinct cells, that received email_message
C3_Witness ==
    \E r \in ScannedRows :
        /\ ~HasPlaceholder(r)
        /\ LabelsIn(r) = {1, 4}
        /\ NumDistinct(r) = 4
        /\ Len(RowWrites(r)) = 1
        /\ RowWrites(r)[1].key = "email_message"

-----------------------------------------------------------------------------
(* C4 *)

\* C4 as stated: when the scan is over every row was processed exactly once
\* and every row whose first cell text contains a label has exactly one
\* field written.  Refuted by a label row with one distinct cell (none) and
\* by a header row whose text contains a label (prompt id and ai_prompt).
C4_OneFieldPerRowAsStated ==
    ScanOver =>
        /\ visited = [k \in 1..Len(template) |-> k]
        /\ \A r \in DocRows : HasLabel(r) => Len(RowWrites(r)) = 1

\* C4, amended: when the scan is over every row was processed exactly once,
\* in order; every row that contains a label and no placeholder has exactly
\* one field written when it has two or more distinct cells and none when it
\* has one, however many labels its text contains.
C4_OneFieldPerRow ==
    ScanOver =>
        /\ visited = [k \in 1..Len(template) |-> k]
        /\ \A r \in DocRows :
             (HasLabel(r) /\ ~HasPlaceholder(r)) =>
                 Len(RowWrites(r)) = IF NumDistinct(r) >= 2 THEN 1 ELSE 0

\* a finished scan of two rows, one with two labels and several cells
C4_Witness ==
    /\ ScanOver
    /\ Len(template) = 2
    /\ \E r \in DocRows :
         /\ ~HasPlaceholder(r) /\ Cardinality(LabelsIn(r)) = 2
         /\ NumDistinct(r) >= 2 /\ Len(RowWrites(r)) = 1

-----------------------------------------------------------------------------
(* C5 *)

\* C5: in every state of the scan, a row with no placeholder and no label
\* has every cell untouched, and a row with no placeholder that matches a
\* label has every cell but its last distinct cell untouched.
C5_OtherCellsKept ==
    \A r \in DocRows :
        ~HasPlaceholder(r) =>
            \A c \in CellsOf(r) : (HasLabel(r) /\ c = LastCell(r)) \/ Untouched(r, c)

\* a finished scan over a row matching nothing and a label row with four
\* distinct cells that was written
C5_Witness ==
    /\ ScanOver
    /\ \E r \in DocRows : ~HasPlaceholder(r) /\ ~HasLabel(r) /\ NumDistinct(r) >= 2
    /\ \E r \in DocRows :
         /\ ~HasPlaceholder(r) /\ HasLabel(r) /\ NumDistinct(r) = 4
         /\ ~Untouched(r, LastCell(r))

-----------------------------------------------------------------------------
(* C6 *)

AttachmentRow(r) ==
    /\ ~HasPlaceholder(r)
    /\ HasLabel(r)
    /\ OrderedLabels[FirstLabel(r)] = "Attachment (if required)"
    /\ NumDistinct(r) >= 2

\* C6: the content cell of a scanned attachment row received exactly
\* 'None required' when attachment_required is false or absent, and exactly
\* the record's attachment_description when it is true.
C6_AttachmentText ==
    \A r \in ScannedRows :
        AttachmentRow(r) =>
            LET w == RowWrites(r)[1]
                absent == "attachment_required" \notin DOMAIN data
            IN  /\ Len(RowWrites(r)) = 1
                /\ w.cell = LastCell(r)
                /\ (absent \/ data["attachment_required"] = PyBool(FALSE)) =>
                     /\ w.val = PyStr(<<"None required">>)
                     /\ doc[r][LastCell(r)] = <<Para(<<"None required">>)>>
                /\ (~absent /\ data["attachment_required"] = PyBool(TRUE)
                    /\ "attachment_description" \in DOMAIN data) =>
                     /\ w.val = data["attachment_description"]
                     /\ doc[r][LastCell(r)] = Rendered(data["attachment_description"], FALSE)

\* a finished scan of an attachment row for a record that requires one
C6_Witness ==
    /\ ScanOver
    /\ "attachment_required" \in DOMAIN data
    /\ data["attachment_required"] = PyBool(TRUE)
    /\ "attachment_description" \in DOMAIN data
    /\ \E r \in ScannedRows :
         AttachmentRow(r) /\ RowWrites(r)[1].val = data["attachment_description"]

-----------------------------------------------------------------------------
(* C7, C8 *)

\* every field the record holds has the type the data model gives it
WellTyped ==
    \A k \in DOMAIN data :
        IF k = "attachment_required" THEN data[k].ty = "bool" ELSE IsStr(data[k])

Missing(key) == key \notin DOMAIN data

\* the record's value for key, or the string dflt when the key is missing
OrElse(key, dflt) == IF Missing(key) THEN PyStr(dflt) ELSE data[key]

ZipRead == dpc \in {"create", "scan", "written", "done"}
DocRead == dpc \in {"scan", "written", "done"}

\* C7 as stated: for a record that omits keys, no read raises and every read
\* of a missing key gives the empty string (false for attachment_required).
\* Refuted: a missing prompt_id is read as 'P01' by create_zip.
C7_MissingReadAsEmptyAsStated ==
    WellTyped =>
        /\ dpc # "raised"
        /\ ZipRead =>
             /\ Missing("prompt_id") => zloc.pid = PyStr(<<>>)
             /\ Missing("demonstrated_ai_capability") => zloc.topic = <<>>
             /\ Missing("attachment_required") => ~zloc.has_att
             /\ (zloc.has_att /\ Missing("attachment_filename")) =>
                    zloc.att_name = PyStr(<<>>)
        /\ DocRead =>
             /\ Missing("prompt_id") => loc.pid = PyStr(<<>>)
             /\ Missing("demonstrated_ai_capability") => loc.topic = <<>>
             /\ (zloc.has_att /\ Missing("attachment_description")) =>
                    loc.att = PyStr(<<>>)

\* C7, amended: for a record that omits any subset of its keys no read
\* raises, and every read of a missing key gives that read's fixed default:
\*   create_zip: prompt_id 'P01', demonstrated_ai_capability 'Prompt',
\*     attachment_required false, attachment_filename 'Attachment.docx',
\*     attachment_description 'Sample';
\*   generate_attachment_docx: attachment_content '' (no attachment),
\*     prompt_id '', attachment_description 'Sample attachment';
\*   create_prompt_docx: prompt_id 'DP01', demonstrated_ai_capability
\*     'Prompt' in the header label, attachment_required false,
\*     attachment_description '', and '' for every field written to a cell
\*     by its label and for ai_prompt.
C7_MissingReadAsDefault ==
    WellTyped =>
        /\ dpc # "raised"
        /\ ZipRead =>
             /\ zloc.pid = OrElse("prompt_id", <<"P01">>)
             /\ zloc.topic = Strip(OrElse("demonstrated_ai_capability", <<"Prompt">>).v)
             /\ zloc.has_att = (~Missing("attachment_required")
                                /\ data["attachment_required"] = PyBool(TRUE))
             /\ (zloc.has_att /\ Missing("attachment_filename")) =>
                    zloc.att_name = PyStr(<<"Attachment", ".", "docx">>)
             /\ (zloc.has_att /\ Missing("attachment_content")) =>
                    zloc.att_bytes.ret = "None"
             /\ zloc.att_bytes.ret = "bytes" =>
                    zloc.att_bytes.body[1].runs[1].text =
                        OrElse("prompt_id", <<>>).v \o <<" ", "--", " ">>
                        \o OrElse("attachment_description", <<"Sample attachment">>).v
        /\ DocRead =>
             /\ loc.pid = OrElse("prompt_id", <<"DP01">>)
             /\ loc.topic = Strip(OrElse("demonstrated_ai_capability", <<"Prompt">>).v)
             /\ loc.file_label = loc.pid.v \o <<" - Prompt Topic - ">> \o loc.topic
             /\ loc.att = IF zloc.has_att THEN OrElse("attachment_description", <<>>)
                          ELSE PyStr(<<"None required">>)
             /\ data["attachment_text"] = loc.att
             /\ \A k \in 1..Len(writes) :
                    writes[k].val = IF writes[k].key = "prompt_id" THEN loc.pid
                                    ELSE OrElse(writes[k].key, <<>>)
        /\ (dpc = "done" /\ Len(zloc.entries) = 2) =>
               zloc.entries[2] = zloc.pid.v \o <<" - Sample Attachment - ">>
                   \o Sanitize(Strip(OrElse("attachment_description", <<"Sample">>).v))
                   \o DocxExt

\* create_zip ran to its end, with both archive entries, for a record that
\* requires an attachment and omits prompt_id, demonstrated_ai_capability,
\* attachment_filename, attachment_description and ai_prompt
C7_Witness ==
    /\ dpc = "done"
    /\ WellTyped
    /\ Len(zloc.entries) = 2
    /\ \A k \in {"prompt_id", "demonstrated_ai_capability", "attachment_filename",
                 "attachment_description", "ai_prompt"} : Missing(k)
    /\ \E k \in 1..Len(writes) : writes[k].key = "ai_prompt"

\* C8 as stated: for a record with a field of the wrong type, create_zip,
\* generate_attachment_docx and create_prompt_docx complete without raising.
\* Refuted by the code: .strip(), .endswith() and .split() of a value that is
\* no string raise AttributeError, which nothing catches.
C8_WrongTypesNeverRaise == (~WellTyped) => dpc # "raised"

-----------------------------------------------------------------------------
(* C9: what the generate step accepts from the model *)

\* a decoded value is an array all of whose elements are objects
ArrayOfObjects(result) ==
    /\ result.ty = "list"
    /\ \A k \in 1..Len(result.items) : result.items[k].ty = "dict"

\* C9: a decoded value adds records to the request's list only when it is
\* an array all of whose elements are mapping objects; any other value adds
\* no records, and packaging what was stored raises no error.
C9_OnlyObjectArraysAdd ==
    /\ \A k \in 1..Len(calls) :
           ~calls[k].raised =>
               calls[k].added = IF ArrayOfObjects(calls[k].result)
                                THEN Len(calls[k].result.items) ELSE 0
    /\ zip_result # "raised"

-----------------------------------------------------------------------------
(* C10: bold spans in the renderers *)

\* the line holds a span: '**', at least one character, '**'
HasSpan(line) == FindMatch(line, 1) # 0

\* the runs written back as marked text: a bold run as '**' text '**'
RECURSIVE Unmark(_)
Unmark(runs) ==
    IF runs = <<>> THEN <<>>
    ELSE (IF Head(runs).bold THEN Stars \o Head(runs).text \o Stars
          ELSE Head(runs).text) \o Unmark(Tail(runs))

\* the runs are the line with its spans turned into bold runs: nothing but
\* span delimiters is dropped, the text outside spans stays in non-bold runs
RendersSpans(line, runs) ==
    /\ Unmark(runs) = line
    /\ \E r \in 1..Len(runs) : runs[r].bold /\ runs[r].text # <<>>

InputLines == SplitLines(text)

\* C10: for every line of the input text holding a '**x**' span, both
\* renderers (_set_cell_text with bold=False, generate_attachment_docx) emit a
\* bold run of exactly x, every character outside the spans appears verbatim
\* and in order in non-bold runs, and only span delimiters are dropped.
C10_SpansRenderedVerbatim ==
    /\ (rpc \in {"cell", "att"} /\ ~rbold) =>
           \A k \in 1..Len(InputLines) :
               HasSpan(InputLines[k]) =>
                   /\ k <= Len(cellOut)
                   /\ RendersSpans(InputLines[k], cellOut[k].runs)
    /\ rpc = "att" =>
           \A k \in 1..Len(InputLines) :
               HasSpan(InputLines[k]) =>
                   /\ attOut.ret = "bytes"
                   /\ \E j \in 4..Len(attOut.body) :
                          RendersSpans(InputLines[k], attOut.body[j].runs)

-----------------------------------------------------------------------------
(* C11: bullet lines in the renderers *)

\* the lines generate_attachment_docx iterates over
ContentLines == SplitLines(Strip(text))

\* a paragraph rendered as an indented bullet line
BulletRendered(para) ==
    /\ para.ind
    /\ StartsWith(JoinRuns(para.runs), <<Bullet, " ">>)

\* C11: every line whose stripped text starts with '- ' or the bullet and a
\* space is rendered as an indented line whose text starts with the bullet
\* and a space, by _set_cell_text and by generate_attachment_docx, whatever
\* else the line holds (upper-case text, a short line ending in ':').
C11_BulletLinesRendered ==
    /\ rpc \in {"cell", "att"} =>
           \A k \in 1..Len(InputLines) :
               IsBullet(Strip(InputLines[k])) => BulletRendered(cellOut[k])
    /\ (rpc = "att" /\ attOut.ret = "bytes") =>
           \A k \in 1..Len(ContentLines) :
               IsBullet(Strip(ContentLines[k])) => BulletRendered(attOut.body[3 + k])

-----------------------------------------------------------------------------
(* C12: writing a cell and reading it back *)

\* the bold-span markers removed: each span replaced by its inner text
RECURSIVE SpansRemovedFrom(_, _)
SpansRemovedFrom(s, from) ==
    LET p == FindMatch(s, from)
    IN  IF p = 0 THEN Slice(s, from, Len(s))
        ELSE Slice(s, from, p - 1) \o Slice(s, p + 2, CloseAt(s, p) - 1)
             \o SpansRemovedFrom(s, CloseAt(s, p) + 2)

\* the plain-text reconstruction of one line: a leading '- ' or bullet
\* marker replaced by the bullet, the markers of bold spans removed
PlainLine(line) ==
    LET marked == IF IsBullet(Strip(line))
                  THEN <<Bullet, " ">> \o Slice(Strip(line), 3, Len(Strip(line)))
                  ELSE line
    IN  SpansRemovedFrom(marked, 1)

RECURSIVE PlainText(_)
PlainText(lines) ==
    IF lines = <<>> THEN <<>> ELSE PlainLine(Head(lines)) \o PlainText(Tail(lines))

\* the characters of s that are no whitespace, in order
Inked(s) == SelectSeq(s, LAMBDA c : c \notin Whitespace)

\* C12: after _set_cell_text(cell, text), _get_cell_text returns exactly the
\* plain-text reconstruction of text: each line's characters in order, a
\* leading '- ' or bullet marker replaced by the bullet and the '**' markers
\* of bold spans removed, nothing else dropped or added.  Stated here for
\* the characters that are no whitespace, which the claim implies: the
\* final strip() of _get_cell_text and the line breaks are left aside.
C12_ReadBackIsPlainText ==
    rpc \in {"cell", "att"} =>
        Inked(get_cell_text(cellOut)) = Inked(PlainText(InputLines))

-----------------------------------------------------------------------------
(* Vocabulary of the properties of create_zip *)

\* the places in the archive of record i's entries of a kind
EntriesOf(i, kind) ==
    {k \in 1..Len(archive) : archive[k].rec = i /\ archive[k].kind = kind}

OneEntry(i, kind) == Cardinality(EntriesOf(i, kind)) = 1
NoEntry(i, kind) == EntriesOf(i, kind) = {}

TheEntry(i, kind) == archive[CHOOSE k \in EntriesOf(i, kind) : TRUE]

Required(i) == Truthy(Get(zprompts[i], "attachment_required", PyNone))

\* the texts of the attachment elements spliced into a body, in order
SplicedTexts(body) ==
    LET att == SelectSeq(body, LAMBDA el : el.from = "att")
    IN  [k \in 1..Len(att) |-> att[k].text]

\* the texts of the paragraphs of a rendered attachment, in order
ParagraphTexts(paras) == [k \in 1..Len(paras) |-> JoinRuns(paras[k].runs)]

\* record i's main document holds its standalone attachment spliced in
SplicedIn(i) ==
    /\ OneEntry(i, "main") /\ OneEntry(i, "att")
    /\ SplicedTexts(TheEntry(i, "main").body) # <<>>
    /\ SplicedTexts(TheEntry(i, "main").body)
           = ParagraphTexts(TheEntry(i, "att").body)

\* the standalone attachment of record i is rendered from attachment_content:
\* the title, spacer and note paragraphs, then one paragraph per line
RenderedFromContent(i) ==
    LET content == Get(zprompts[i], "attachment_content", PyStr(<<>>))
    IN  /\ OneEntry(i, "att")
        /\ IsStr(content)
        /\ Len(TheEntry(i, "att").body) = 3 + Len(SplitLines(Strip(content.v)))

MainOnly(i) ==
    /\ OneEntry(i, "main") /\ NoEntry(i, "att")
    /\ SplicedTexts(TheEntry(i, "main").body) = <<>>

-----------------------------------------------------------------------------
(* C13 *)

\* C13 (as stated): when create_zip returns, every record with
\* attachment_required true has in the archive a standalone attachment
\* rendered from attachment_content and its main document with that
\* attachment spliced in, whatever its other fields hold (an empty
\* attachment_content or attachment_filename included); every record with
\* attachment_required false has its main document only.
C13_AttachmentIffRequiredAsStated ==
    zpc = "done" =>
        \A i \in 1..Len(zprompts) :
            IF Required(i)
            THEN RenderedFromContent(i) /\ SplicedIn(i)
            ELSE MainOnly(i)

\* the record has an attachment to package: it is required, its content is
\* a string that is not blank, and its file name is not empty
HasAttachment(i) ==
    LET content == Get(zprompts[i], "attachment_content", PyStr(<<>>))
        fname == Get(zprompts[i], "attachment_filename",
                     PyStr(<<"Attachment", ".", "docx">>))
    IN  /\ Required(i)
        /\ IsStr(content) /\ Strip(content.v) # <<>>
        /\ Truthy(fname)

\* C13 (amended): every record create_zip has packaged has its main document
\* in the archive; it has a standalone attachment rendered from
\* attachment_content, and that attachment spliced into its main document,
\* exactly when attachment_required is truthy, attachment_content is not
\* blank and attachment_filename is not empty; otherwise it has the main
\* document only.  A record not reached yet has no entry, and the record at
\* which create_zip raised has no attachment entry.
C13_AttachmentIffPresent ==
    \A i \in 1..Len(zprompts) :
        /\ i < zi =>
               IF HasAttachment(i)
               THEN RenderedFromContent(i) /\ SplicedIn(i)
               ELSE MainOnly(i)
        /\ i >= zi => NoEntry(i, "att")
        /\ i > zi => NoEntry(i, "main")

C13_Witness ==
    /\ zpc = "done"
    /\ Len(zprompts) = 2
    /\ HasAttachment(1) /\ SplicedIn(1)
    /\ Required(2) /\ ~HasAttachment(2) /\ MainOnly(2)

-----------------------------------------------------------------------------
(* C14 *)

NumRequired == Cardinality({i \in 1..Len(zprompts) : Required(i)})

DistinctNames ==
    \A j, k \in 1..Len(archive) : j # k => archive[j].name # archive[k].name

\* C14: for a list of N records of which k require an attachment, create_zip
\* returns an archive of exactly N + k entries whose names are pairwise
\* distinct.
C14_EntryCountAndNames ==
    zpc = "done" =>
        /\ Len(archive) = Len(zprompts) + NumRequired
        /\ DistinctNames

-----------------------------------------------------------------------------
(* C15, C16: the attachment splice of create_prompt_docx *)

\* the call was handed attachment bytes and an attachment name
AttachmentSupplied ==
    cpd_args.attachment_bytes.given /\ Truthy(cpd_args.attachment_name)

\* the paragraph and table elements of the attachment handed in, in order
Copyable == SelectSeq(cpd_args.attachment_bytes.elems,
                      LAMBDA el : el.tag \in {"p", "tbl"})

\* the merge fails: the bytes are unreadable, or a copy raises
SpliceFails ==
    \/ ~cpd_args.attachment_bytes.readable
    \/ /\ cpd_args.fail_at \in 1..Len(cpd_args.attachment_bytes.elems)
       /\ cpd_args.attachment_bytes.elems[cpd_args.fail_at].tag \in {"p", "tbl"}

\* the template's own content: its body without the section properties
TemplateContent ==
    LET tb == TemplateBody(TemplateName(cpd_args.is_friday))
    IN  SubSeq(tb, 1, Len(tb) - 1)

\* what follows the template's content in the returned body, the last
\* element left out
Appended == SubSeq(cpd_ret.body, Len(TemplateContent) + 1, Len(cpd_ret.body) - 1)

\* C15: when attachment bytes and an attachment name are supplied (and the
\* merge does not fail), the returned body holds the template's own content,
\* then a page-break paragraph, the banner naming the attachment, the note,
\* then a copy of every paragraph and table element of the attachment in the
\* attachment's order and of no other element; the section properties stay
\* the last element.
C15_SpliceOrder ==
    (cpc = "returned" /\ AttachmentSupplied /\ ~SpliceFails) =>
        /\ SubSeq(cpd_ret.body, 1, Len(TemplateContent)) = TemplateContent
        /\ Len(Appended) = 3 + Len(Copyable)
        /\ Appended[1].from = "pagebreak" /\ Appended[1].tag = "p"
        /\ Appended[2].from = "banner" /\ Appended[2].tag = "p"
        /\ Appended[2].text = <<"SAMPLE ATTACHMENT -- ">>
                                  \o cpd_args.attachment_name.v
        /\ Appended[3].from = "note" /\ Appended[3].tag = "p"
        /\ \A k \in 1..Len(Copyable) :
               /\ Appended[3 + k].from = "att"
               /\ Appended[3 + k].tag = Copyable[k].tag
               /\ Appended[3 + k].n = Copyable[k].n
        /\ cpd_ret.body[Len(cpd_ret.body)].tag = "sectPr"
        /\ cpd_ret.body[Len(cpd_ret.body)].from = TemplateName(cpd_args.is_friday)

C15_Witness ==
    /\ cpc = "returned" /\ AttachmentSupplied /\ ~SpliceFails
    /\ Len(Copyable) = 2
    /\ Len(cpd_args.attachment_bytes.elems) = 4
    /\ Copyable[1].tag = "tbl" /\ Copyable[2].tag = "p"
    /\ Len(cpd_ret.body) = 8

FallbackCount ==
    Cardinality({k \in 1..Len(cpd_ret.body) : cpd_ret.body[k].from = "fallback"})

\* C16: if the merge of the attachment fails (unreadable bytes, or a failure
\* part-way through the copying), create_prompt_docx still returns a
\* document, which holds exactly one fallback paragraph and no spliced
\* attachment element.
C16_FallbackInsteadOfAttachment ==
    (cpd_ret.ret = "bytes" /\ AttachmentSupplied /\ SpliceFails) =>
        /\ cpc = "returned"
        /\ FallbackCount = 1
        /\ \A k \in 1..Len(cpd_ret.body) : cpd_ret.body[k].from # "att"

-----------------------------------------------------------------------------
(* C17 *)

\* generating the attachment of record i raises
AttachmentErrorAt(i) ==
    Required(i) /\ generate_attachment_docx(zprompts[i]).ret = "raise"

\* C17: an error raised while generating or splicing one record's attachment
\* does not abort create_zip: create_zip never ends by raising at a record
\* whose attachment failed, and the archive it returns holds the main
\* document of every record.
C17_AttachmentErrorsIsolated ==
    /\ zpc = "raised" => ~AttachmentErrorAt(zi)
    /\ zpc = "done" => \A i \in 1..Len(zprompts) : OneEntry(i, "main")

-----------------------------------------------------------------------------
(* C18 *)

\* a call that raised is the last call of its request, which ended with
\* that call's error; no kind of call is made twice in a request
RaiseEndsRequest ==
    /\ \A k \in 1..Len(calls) :
           calls[k].raised =>
               /\ k = Len(calls)
               /\ gpc = "idle"
               /\ gerr = calls[k].kind
    /\ \A j, k \in 1..Len(calls) : j < k => calls[j].kind # calls[k].kind

\* no step from the click to the end of the call blocks changes what is
\* stored
StoredKeptDuringCalls ==
    gpc \in {"idle", "daily", "friday"} =>
        (generated_prompts' = generated_prompts /\ is_friday_list' = is_friday_list)

\* C18: if the daily or the Friday call of a request raises, the request
\* ends there: no further call is made and none is repeated, and the stored
\* generated_prompts and is_friday_list keep the values they had before the
\* request, so records of an earlier call of the request are not kept.
C18_RaiseKeepsStored ==
    []RaiseEndsRequest /\ [][StoredKeptDuringCalls]_vars

C18_Witness ==
    /\ requests = 2
    /\ Len(calls) = 2
    /\ ~calls[1].raised /\ calls[1].added > 0
    /\ calls[2].raised
    /\ gpc = "idle"
    /\ all_prompts # <<>>
    /\ generated_prompts # <<>>
    /\ generated_prompts # all_prompts

-----------------------------------------------------------------------------
(* C19 *)

\* the template the claim names for the call
ClaimedTemplate ==
    IF cpd_args.is_friday THEN "Friday_Prompt_Template.docx"
    ELSE "Daily_Prompt_Template.docx"

\* C19: create_prompt_docx uses Friday_Prompt_Template.docx when is_friday
\* is true and Daily_Prompt_Template.docx otherwise; when that file does not
\* exist the call raises the template-missing error having opened no
\* document and left the record as it was, and returns no bytes; when it
\* exists it is the first document opened and the returned body is its body
\* filled in.
C19_TemplateByVariant ==
    cpc # "call" =>
        IF ClaimedTemplate \notin cpd_args.present
        THEN /\ cpc = "raised"
             /\ cpd_ret.ret = "FileNotFoundError"
             /\ cpd_ret.opened = <<>>
             /\ cpd_ret.data = cpd_args.data
             /\ cpd_ret.body = <<>>
        ELSE /\ cpd_ret.ret # "FileNotFoundError"
             /\ cpd_ret.opened # <<>>
             /\ cpd_ret.opened[1] = ClaimedTemplate
             /\ cpd_ret.ret = "bytes" => cpd_ret.body[1].from = ClaimedTemplate

C19_Witness ==
    /\ cpc = "raised"
    /\ cpd_args.is_friday
    /\ cpd_args.present = {"Daily_Prompt_Template.docx"}
    /\ cpd_ret.ret = "FileNotFoundError"
    /\ cpd_args.attachment_bytes.given

-----------------------------------------------------------------------------
(* C20 *)

AdminDomain == <<"@", "ssaandco.com">>

\* every session that has its list has the admin domain in it
SessionsHaveAdmin ==
    \A s \in Sessions :
        allowed_domains[s] # <<>> =>
            \E k \in 1..Len(allowed_domains[s]) : allowed_domains[s][k] = AdminDomain

\* the persisted file exists, parses and lists the admin domain
FileHasAdmin ==
    /\ domains_file.kind = "json"
    /\ \E k \in 1..Len(domains_file.domains) : domains_file.domains[k] = AdminDomain

\* C20 (as stated): after any sequence of load, add and remove operations
\* the session's list and the persisted file both contain '@ssaandco.com'.
C20_AdminDomainInListAndFileAsStated ==
    last_op # "none" => (SessionsHaveAdmin /\ FileHasAdmin)

\* a step that writes the file leaves the admin domain in it, and a file
\* that has it keeps it
FileKeepsAdmin ==
    /\ domains_file' # domains_file => FileHasAdmin'
    /\ FileHasAdmin => FileHasAdmin'

\* C20 (amended): after any sequence of load, add and remove operations, in
\* any session, every session's list contains '@ssaandco.com', and no remove
\* takes it out; the persisted file contains it from the first add or remove
\* that is saved on (a load does not write the file, so a file that is
\* missing, unreadable or lacks the domain stays so until then), and once
\* it holds the domain it keeps it.
C20_AdminDomainKept ==
    []SessionsHaveAdmin /\ [][FileKeepsAdmin]_vars
       /\ [](last_op \in {"add", "remove"} => FileHasAdmin)

C20_Witness ==
    /\ last_op = "remove"
    /\ FileHasAdmin
    /\ \A s \in Sessions : allowed_domains[s] # <<>>
    /\ allowed_domains[1] # allowed_domains[2]
    /\ Len(allowed_domains[1]) = 1

-----------------------------------------------------------------------------
(* C21 *)

Members(list) == {list[k] : k \in 1..Len(list)}

\* the step wrote the file wholesale from session s's own list: the file
\* holds that session's new list, which is its former list with one domain
\* added or removed, whatever the file held
WrittenFrom(s) ==
    /\ allowed_domains[s] # <<>>
    /\ domains_file' = JsonFile(allowed_domains'[s])
    /\ Cardinality((Members(allowed_domains[s]) \ Members(domains_file'.domains))
                   \cup (Members(domains_file'.domains) \ Members(allowed_domains[s]))) = 1
    /\ \A t \in Sessions \ {s} : allowed_domains'[t] = allowed_domains[t]

\* a session that has its list never reads the file again: its list changes
\* only in a save of its own; and every write of the file is such a save
SavesAreWholesale ==
    /\ domains_file' # domains_file => \E s \in Sessions : WrittenFrom(s)
    /\ \A s \in Sessions :
           (allowed_domains[s] # <<>> /\ allowed_domains'[s] # allowed_domains[s])
               => WrittenFrom(s)

\* C21: the allowlist file is read once per session into that session's own
\* list and rewritten wholesale from that list on every add or remove (so a
\* domain saved by one session is overwritten by the next save of another
\* session: the lost update is the witness).
C21_WholesaleRewrite == [][SavesAreWholesale]_vars

\* '@x.org' gets into a list only by an add, which saved it in the file:
\* session 1 has it, and the file, last saved by session 2, has lost it
C21_Witness ==
    /\ InList(<<"@", "x.org">>, allowed_domains[1])
    /\ domains_file = JsonFile(allowed_domains[2])
    /\ ~InList(<<"@", "x.org">>, domains_file.domains)
    /\ last_op \in {"add", "remove"}

-----------------------------------------------------------------------------
(* C22 *)

\* where the underlying cell c first occurs in the row
FirstAt(c) == MinOf({k \in 1..Len(row_cells) : row_cells[k] = c})

\* C22: _unique_cells returns the row's cells with every repeat of an
\* underlying cell removed, in first-occurrence order: no two returned
\* entries share an underlying cell (a merged cell appears once) and every
\* underlying cell of the row is returned.
C22_UniqueCells ==
    ucpc = "returned" =>
        /\ \A j, k \in 1..Len(unique) : j # k => unique[j] # unique[k]
        /\ {unique[k] : k \in 1..Len(unique)} = {row_cells[k] : k \in 1..Len(row_cells)}
        /\ \A j, k \in 1..Len(unique) : j < k => FirstAt(unique[j]) < FirstAt(unique[k])

C22_Witness ==
    /\ ucpc = "returned"
    /\ row_cells = <<1, 2, 2, 3>>
    /\ unique = <<1, 2, 3>>

-----------------------------------------------------------------------------
(* C23 *)

\* a header text node that is not empty / that holds a non-whitespace
\* character, in the template as opened
NonEmptyNode(p) == IsHeaderRel(rels0[p[1]]) /\ rels0[p[1]].nodes[p[2]] # <<>>
NonBlankNode(p) == NonEmptyNode(p) /\ Strip(rels0[p[1]].nodes[p[2]]) # <<>>

\* the same parts with the same number of text nodes before and after
SameShape ==
    /\ Len(rels) = Len(rels0)
    /\ \A i \in 1..Len(rels) :
          /\ rels[i].reltype = rels0[i].reltype
          /\ Len(rels[i].nodes) = Len(rels0[i].nodes)

HeaderLabel ==
    Format(Get(hdata, "prompt_id", PyStr(<<"DP01">>)))
    \o <<" - Prompt Topic - ">>
    \o Strip(Get(hdata, "demonstrated_ai_capability", PyStr(<<"Prompt">>)).v)

-----------------------------------------------------------------------------
(* C24 *)

NotAttached(tag) == tag # "attachedTemplate"

\* a step of _fix_template_ref: it can always run; afterwards no child of
\* the settings element is an attached-template reference and the other
\* children are those of the opened template, in order; a run after the
\* first changes nothing
FixStep ==
    /\ fix_runs' = fix_runs + 1
    /\ \A k \in 1..Len(settings'.children) : NotAttached(settings'.children[k])
    /\ settings'.children = SelectSeq(settings0.children, NotAttached)
    /\ settings'.template_rel = settings0.template_rel
    /\ fix_runs >= 1 => settings' = settings

-----------------------------------------------------------------------------
(* C25 *)

\* the last request ran to completion: no check and no call stopped it and
\* the lists were stored
RequestCompleted == requests > 0 /\ gerr = "none" /\ gpc \in {"results", "idle"}

\* the records the call of this kind returned in the request (none when it
\* was not made or returned no list)
RecordsFrom(kind) ==
    LET made == {k \in 1..Len(calls) : calls[k].kind = kind /\ calls[k].result.ty = "list"}
    IN  IF made = {} THEN <<>> ELSE calls[MinOf(made)].result.items

\* C25: after a generate request that ran to completion the two stored lists
\* have the same length, the stored records are those of the daily call
\* followed by those of the Friday call, and entry i of is_friday_list is
\* true exactly when record i came from the Friday call.
C25_FlagsMatchOrigin ==
    RequestCompleted =>
        /\ Len(generated_prompts) = Len(is_friday_list)
        /\ generated_prompts = RecordsFrom("daily") \o RecordsFrom("friday")
        /\ \A k \in 1..Len(is_friday_list) :
              is_friday_list[k] = (k > Len(RecordsFrom("daily")))

C25_Witness ==
    /\ RequestCompleted
    /\ Len(RecordsFrom("daily")) = 2
    /\ Len(RecordsFrom("friday")) = 1
    /\ is_friday_list = <<FALSE, FALSE, TRUE>>

-----------------------------------------------------------------------------
(* C26 *)

BlankKey(key) == key \in {"", " "}

\* C26: a call is made only with an agent, an industry and a non-blank key;
\* a request whose agent, industry or key (the first missing one, in that
\* order) is missing is stopped with that error and makes no call; and in a
\* request the daily call comes first and has returned before the Friday
\* call is made.
C26_ChecksBeforeCallsDailyFirst ==
    /\ calls # <<>> =>
          inputs.ai_agent # "" /\ inputs.industry # "" /\ ~BlankKey(inputs.api_key)
    /\ requests > 0 =>
          /\ inputs.ai_agent = "" =>
                gerr = "agent" /\ gpc = "idle" /\ calls = <<>>
          /\ (inputs.ai_agent # "" /\ inputs.industry = "") =>
                gerr = "industry" /\ gpc = "idle" /\ calls = <<>>
          /\ (inputs.ai_agent # "" /\ inputs.industry # "" /\ BlankKey(inputs.api_key)) =>
                gerr = "key" /\ gpc = "idle" /\ calls = <<>>
    /\ \A j, k \in 1..Len(calls) :
          j < k => calls[j].kind = "daily" /\ ~calls[j].raised /\ calls[k].kind = "friday"
    /\ \A k \in 1..Len(calls) :
          (calls[k].kind = "friday" /\ inputs.num_daily > 0) =>
              k = 2 /\ calls[1].kind = "daily" /\ ~calls[1].raised

C26_Witness ==
    /\ Len(calls) = 2
    /\ calls[1].kind = "daily"
    /\ calls[2].kind = "friday"
    /\ inputs.api_key = "sk-ant-1"
    /\ requests = 2

=============================================================================
